---- MODULE Spec2Model ----
(***************************************************************************)
(* Opportunity scanner: the net-edge scorer with risk gating               *)
(* (scripts/scan_opportunities.py) and the tables it consults.             *)
(*                                                                         *)
(* Number representation.  Python floats are modelled as exact fixed-point *)
(* integers:                                                               *)
(*   - bps values, minutes, leverage ratios: millionths (1 bps = 1000000), *)
(*     the resolution of round(x, 6);                                      *)
(*   - risk scores: ten-thousandths (1.0 = 10000), the resolution of       *)
(*     round(x, 4);                                                        *)
(*   - USD amounts: whole dollars;                                         *)
(*   - multipliers, hours and per-minute penalties: reduced fractions      *)
(*     [n |-> numerator, d |-> denominator].                               *)
(* round(x, k) is round-half-to-even on the exact value.  Where the exact   *)
(* value lies half-way between two neighbours the float result may be      *)
(* either neighbour; the model takes the even one.                         *)
(*                                                                         *)
(* Strings are tuples of one-character strings, so that strip, lower,      *)
(* substring search, tokenisation and lexicographic order are computed.    *)
(***************************************************************************)
EXTENDS Integers, Sequences, FiniteSets, TLC

\* ------------------------------------------------------------------ bounds
\* Longest input candidate array of a scoring run.
MaxItems == 2
\* Longest raw venue string enumerated over VenueAlphabet.
MaxVenueLen == 2

\* -------------------------------------------------------------- characters
LowerSeq ==
  << "a","b","c","d","e","f","g","h","i","j","k","l","m",
     "n","o","p","q","r","s","t","u","v","w","x","y","z" >>
UpperSeq ==
  << "A","B","C","D","E","F","G","H","I","J","K","L","M",
     "N","O","P","Q","R","S","T","U","V","W","X","Y","Z" >>
DigitSeq == << "0","1","2","3","4","5","6","7","8","9" >>

\* Characters in code-point order, the order Python compares strings by.
AsciiOrder ==
  << " ", "-", "/" >> \o DigitSeq \o << ">" >> \o UpperSeq \o << "_" >> \o LowerSeq

Range(s) == { s[i] : i \in DOMAIN s }

IndexOf(c, s) == CHOOSE i \in DOMAIN s : s[i] = c

CharCode(c) == IndexOf(c, AsciiOrder)

\* str.lower() and str.upper(), one character at a time.
LowerChar(c) == IF c \in Range(UpperSeq) THEN LowerSeq[IndexOf(c, UpperSeq)] ELSE c
UpperChar(c) == IF c \in Range(LowerSeq) THEN UpperSeq[IndexOf(c, LowerSeq)] ELSE c
Lower(s) == [ i \in DOMAIN s |-> LowerChar(s[i]) ]
Upper(s) == [ i \in DOMAIN s |-> UpperChar(s[i]) ]

\* str.strip(): drop leading and trailing whitespace.
RECURSIVE LStrip(_)
LStrip(s) ==
  IF s # << >> /\ Head(s) = " " THEN LStrip(Tail(s)) ELSE s
RECURSIVE RStrip(_)
RStrip(s) ==
  IF s # << >> /\ s[Len(s)] = " " THEN RStrip(SubSeq(s, 1, Len(s) - 1)) ELSE s
Strip(s) == RStrip(LStrip(s))

\* `sub in s` for Python strings.
Contains(s, sub) ==
  \E i \in 0 .. (Len(s) - Len(sub)) : SubSeq(s, i + 1, i + Len(sub)) = sub

\* [t for t in re.split(r"[^a-z0-9]+", lowered) if t]
LowerAlnum == Range(LowerSeq) \cup Range(DigitSeq)
UpperAlnum == Range(UpperSeq) \cup Range(DigitSeq)
RECURSIVE SplitOn(_, _, _)
SplitOn(s, keep, cur) ==
  IF s = << >>
  THEN IF cur = << >> THEN << >> ELSE << cur >>
  ELSE IF Head(s) \in keep
       THEN SplitOn(Tail(s), keep, Append(cur, Head(s)))
       ELSE (IF cur = << >> THEN << >> ELSE << cur >>) \o SplitOn(Tail(s), keep, << >>)
Tokens(lowered) == SplitOn(lowered, LowerAlnum, << >>)

\* a < b for Python strings (lexicographic by code point).
RECURSIVE StrLess(_, _)
StrLess(a, b) ==
  IF b = << >> THEN FALSE
  ELSE IF a = << >> THEN TRUE
  ELSE IF Head(a) # Head(b) THEN CharCode(Head(a)) < CharCode(Head(b))
  ELSE StrLess(Tail(a), Tail(b))

\* ------------------------------------------------------------- vocabulary
s_unknown == << "u","n","k","n","o","w","n" >>
s_spot == << "s","p","o","t" >>
s_perp == << "p","e","r","p" >>
s_dex == << "d","e","x" >>
s_jupiter == << "j","u","p","i","t","e","r" >>
s_uniswap == << "u","n","i","s","w","a","p" >>

VENUE_STOPWORDS ==
  { << "l","o","n","g" >>, << "s","h","o","r","t" >>, s_spot, s_perp,
    << "f","u","t","u","r","e","s" >>, << "f","u","t","u","r","e" >>,
    << "s","w","a","p" >>, s_dex, << "c","e","x" >>,
    << "b","u","y" >>, << "s","e","l","l" >> }

\* ------------------------------------------------- venue canonicalisation
\* sorted(known_venues, key=len, reverse=True): a stable sort of the set's
\* iteration order `iter`, so venues of equal length keep that order.
RECURSIVE InsertByLen(_, _)
InsertByLen(v, sorted) ==
  IF sorted = << >> THEN << v >>
  ELSE IF Len(Head(sorted)) >= Len(v)
       THEN << Head(sorted) >> \o InsertByLen(v, Tail(sorted))
       ELSE << v >> \o sorted
RECURSIVE SortedByLenDesc(_)
SortedByLenDesc(iter) ==
  IF iter = << >> THEN << >>
  ELSE InsertByLen(iter[Len(iter)], SortedByLenDesc(SubSeq(iter, 1, Len(iter) - 1)))

\* The first element of seq satisfying a membership test, or none.
FirstIndex(seq, ok) ==
  IF \E i \in DOMAIN seq : seq[i] \in ok
  THEN CHOOSE i \in DOMAIN seq : seq[i] \in ok /\ \A j \in 1 .. (i - 1) : seq[j] \notin ok
  ELSE 0

\* FeeTable.canonical_venue; `iter` is the iteration order of the set
\* self.known_venues in the running process.
canonical_venue(raw_venue, iter) ==
  LET lowered == Lower(Strip(raw_venue))
      known == Range(iter)
      bylen == SortedByLenDesc(iter)
      hit == FirstIndex(bylen, { v \in known : v # << >> /\ Contains(lowered, v) })
      tokens == Tokens(lowered)
      tok == FirstIndex(tokens, Range(tokens) \ VENUE_STOPWORDS)
  IN  IF lowered = << >> THEN s_unknown
      ELSE IF lowered \in known THEN lowered
      ELSE IF hit # 0 THEN bylen[hit]
      ELSE IF tok # 0 THEN tokens[tok]
      ELSE lowered

\* ConstraintBook.canonical_venue: the same algorithm over the book's venues.
ConstraintBook_canonical_venue(raw_venue, iter) ==
  LET lowered == Lower(Strip(raw_venue))
      known == Range(iter)
      bylen == SortedByLenDesc(iter)
      hit == FirstIndex(bylen, { v \in known : v # << >> /\ Contains(lowered, v) })
      tokens == Tokens(lowered)
      tok == FirstIndex(tokens, Range(tokens) \ VENUE_STOPWORDS)
  IN  IF lowered = << >> THEN s_unknown
      ELSE IF lowered \in known THEN lowered
      ELSE IF hit # 0 THEN bylen[hit]
      ELSE IF tok # 0 THEN tokens[tok]
      ELSE lowered

\* ---------------------------------------------------------------- numbers
Min(a, b) == IF a <= b THEN a ELSE b
Max(a, b) == IF a >= b THEN a ELSE b

RECURSIVE Gcd(_, _)
Gcd(a, b) == IF b = 0 THEN a ELSE Gcd(b, a % b)

Frac(n, d) == [n |-> n, d |-> d]
One == Frac(1, 1)

\* The integer nearest to num/den (den > 0), ties to the even one: round().
RoundHalfEven(num, den) ==
  LET q == num \div den
      r == num % den
  IN  IF 2 * r < den THEN q
      ELSE IF 2 * r > den THEN q + 1
      ELSE IF q % 2 = 0 THEN q ELSE q + 1

\* round(x * m, 6) for x in millionths and a fraction m.
RoundMul6(x, m) == RoundHalfEven(x * m.n, m.d)

\* round(x * m, 4) and round(x, 4) for x in millionths; the result is again
\* in millionths.
RoundMul4(x, m) == 100 * RoundHalfEven(x * m.n, 100 * m.d)
Round4(x) == 100 * RoundHalfEven(x, 100)

\* round(sum(terms) / den) where the sum may exceed the machine word:
\* quotients and remainders are added separately.
RECURSIVE SumSeq(_)
SumSeq(s) == IF s = << >> THEN 0 ELSE Head(s) + SumSeq(Tail(s))
RoundSumDiv(terms, den) ==
  LET q == SumSeq([ i \in DOMAIN terms |-> terms[i] \div den ])
      r == SumSeq([ i \in DOMAIN terms |-> terms[i] % den ])
  IN  q + RoundHalfEven(r, den)

\* a > b + 1e-9.  Amounts are whole dollars and leverage ratios whole
\* millionths, so the epsilon never bridges two grid points.
ExceedsEps(a, b) == a > b

\* One bps / one minute / leverage 1.0 in millionths.
Micro == 1000 * 1000

\* 10**18 dollars; any value above every amount of the model serves.
UNBOUNDED_USD == 2000000000

\* ------------------------------------------------------------- strategies
Strategies == { "cex_cex", "cex_dex", "funding_carry_cex_cex", "perp_spot_basis" }

DEFAULT_STRATEGY_HOLD_HOURS ==
  [ cex_cex |-> Frac(1, 5), cex_dex |-> Frac(3, 10),
    funding_carry_cex_cex |-> Frac(8, 1), perp_spot_basis |-> Frac(8, 1) ]

DEFAULT_STRATEGY_LEVERAGE_NOTIONAL_MULTIPLIER ==
  [ cex_cex |-> One, cex_dex |-> One,
    funding_carry_cex_cex |-> Frac(2, 1), perp_spot_basis |-> Frac(5, 4) ]

\* Every strategy taken to need sell-side inventory.
INVENTORY_REQUIRED_STRATEGIES_all ==
  { "cex_cex", "cex_dex", "funding_carry_cex_cex", "perp_spot_basis" }

INVENTORY_REQUIRED_STRATEGIES == { "cex_cex", "cex_dex", "perp_spot_basis" }

EXECUTION_PROFILES ==
  [ taker_default |->
      [ fee_multiplier |-> One, slippage_multiplier |-> One,
        latency_multiplier |-> One, transfer_delay_multiplier |-> One,
        transfer_penalty_bps_per_min |-> Frac(9, 20),
        min_net_edge_bps |-> 8000000, max_risk_score |-> 6000 ],
    maker_inventory |->
      [ fee_multiplier |-> Frac(21, 50), slippage_multiplier |-> Frac(18, 25),
        latency_multiplier |-> Frac(19, 20), transfer_delay_multiplier |-> Frac(3, 10),
        transfer_penalty_bps_per_min |-> Frac(6, 25),
        min_net_edge_bps |-> 4500000, max_risk_score |-> 6200 ],
    maker_inventory_vip |->
      [ fee_multiplier |-> Frac(1, 4), slippage_multiplier |-> Frac(3, 5),
        latency_multiplier |-> Frac(9, 10), transfer_delay_multiplier |-> Frac(1, 5),
        transfer_penalty_bps_per_min |-> Frac(9, 50),
        min_net_edge_bps |-> 3000000, max_risk_score |-> 6500 ] ]

\* The empty dict, and dict.get(key, default).
EmptyMap == [ k \in {} |-> k ]
Get(f, key, default) == IF key \in DOMAIN f THEN f[key] ELSE default

\* ------------------------------------------------------------- fee table
FeeModes == { "taker", "maker", "maker_vip" }
Instruments == { "spot", "perp", "dex", "unknown" }

DEFAULT_PROFILE_FEE_MODE ==
  [ taker_default |-> "taker", maker_inventory |-> "maker",
    maker_inventory_vip |-> "maker_vip" ]

DEFAULT_STRATEGY_ROUNDTRIP_SIDE_MULTIPLIER ==
  [ cex_cex |-> One, cex_dex |-> One,
    funding_carry_cex_cex |-> Frac(2, 1), perp_spot_basis |-> Frac(2, 1) ]

INSTRUMENT_KEYWORDS ==
  [ perp |-> { s_perp, << "f","u","t","u","r","e" >>, << "f","u","t","u","r","e","s" >>,
               << "s","w","a","p" >> },
    dex |-> { s_dex, s_jupiter, s_uniswap, << "r","a","y","d","i","u","m" >>,
              << "0","x" >>, << "o","r","c","a" >> },
    spot |-> { s_spot } ]

\* The fee bucket FeeTable.__init__ falls back to: 10 / 8 / 4 bps.
FallbackFees == [ taker |-> 10000000, maker |-> 8000000, maker_vip |-> 4000000 ]

\* FeeTable.__init__ on a payload (or on None, written NoPayload); `iter` is
\* the iteration order the process gives the set known_venues.
NoPayload == [ rules |-> EmptyMap, defaults |-> EmptyMap ]
FeeTable_init(payload, iter) ==
  [ enabled |-> payload # NoPayload,
    default_fees |-> [ i \in Instruments |-> Get(payload.defaults, i, FallbackFees) ],
    profile_fee_mode |-> DEFAULT_PROFILE_FEE_MODE,
    strategy_roundtrip_side_multiplier |-> DEFAULT_STRATEGY_ROUNDTRIP_SIDE_MULTIPLIER,
    rules |-> payload.rules,
    known_venues |-> iter ]

instrument_from_venue(raw_venue) ==
  LET lowered == Lower(Strip(raw_venue))
      token_set == Range(Tokens(lowered))
  IN  IF lowered = << >> THEN "unknown"
      ELSE IF token_set \cap INSTRUMENT_KEYWORDS.perp # {} THEN "perp"
      ELSE IF token_set \cap INSTRUMENT_KEYWORDS.dex # {} THEN "dex"
      ELSE IF token_set \cap INSTRUMENT_KEYWORDS.spot # {} THEN "spot"
      ELSE IF Contains(lowered, s_jupiter) \/ Contains(lowered, s_uniswap) THEN "dex"
      ELSE "spot"

_default_bucket(ft, instrument) ==
  IF instrument \in DOMAIN ft.default_fees
  THEN ft.default_fees[instrument] ELSE ft.default_fees["unknown"]

side_fee_bps(ft, raw_venue, fee_mode) ==
  LET venue_key == canonical_venue(raw_venue, ft.known_venues)
      instrument == instrument_from_venue(raw_venue)
      row == IF << venue_key, instrument >> \in DOMAIN ft.rules
             THEN ft.rules[<< venue_key, instrument >>]
             ELSE IF << venue_key, "unknown" >> \in DOMAIN ft.rules
             THEN ft.rules[<< venue_key, "unknown" >>]
             ELSE _default_bucket(ft, instrument)
  IN  Max(0, row[fee_mode])

\* The roundtrip total without the strategy's side multiplier.
estimate_total_fee_bps_no_side_multiplier(ft, item, execution_profile) ==
  IF ~ft.enabled THEN [ some |-> FALSE ]
  ELSE
    LET fee_mode == Get(ft.profile_fee_mode, execution_profile, "taker")
    IN  [ some |-> TRUE,
          total |-> side_fee_bps(ft, item.buy_venue, fee_mode)
                      + side_fee_bps(ft, item.sell_venue, fee_mode),
          fee_mode |-> fee_mode ]

\* None when the table is disabled, else (round(total, 6), fee_mode).
estimate_total_fee_bps(ft, item, execution_profile) ==
  IF ~ft.enabled THEN [ some |-> FALSE ]
  ELSE
    LET fee_mode == Get(ft.profile_fee_mode, execution_profile, "taker")
        buy_fee == side_fee_bps(ft, item.buy_venue, fee_mode)
        sell_fee == side_fee_bps(ft, item.sell_venue, fee_mode)
        side_multiplier == Get(ft.strategy_roundtrip_side_multiplier, item.strategy_type, One)
    IN  [ some |-> TRUE,
          total |-> RoundMul6(buy_fee + sell_fee, side_multiplier),
          fee_mode |-> fee_mode ]

\* -------------------------------------------------------- constraint book
s_UNKNOWN == << "U","N","K","N","O","W","N" >>

\* ConstraintBook.__init__ on a payload (NoBook for None); `iter` is the
\* iteration order the process gives the set known_venues.
NoBook ==
  [ rules |-> EmptyMap, defaults |-> EmptyMap, strategy_hold_hours |-> EmptyMap,
    strategy_leverage_notional_multiplier |-> EmptyMap ]
Overlay(base, custom) ==
  [ k \in DOMAIN base \cup DOMAIN custom |->
      IF k \in DOMAIN custom THEN Frac(Max(0, custom[k].n), custom[k].d) ELSE base[k] ]
ConstraintBook_init(payload, iter) ==
  [ enabled |-> payload # NoBook,
    defaults |-> payload.defaults,
    strategy_hold_hours |->
      Overlay(DEFAULT_STRATEGY_HOLD_HOURS, payload.strategy_hold_hours),
    strategy_leverage_notional_multiplier |->
      Overlay(DEFAULT_STRATEGY_LEVERAGE_NOTIONAL_MULTIPLIER,
              payload.strategy_leverage_notional_multiplier),
    rules |-> payload.rules,
    known_venues |-> iter ]

hold_hours(book, strategy_type) == Get(book.strategy_hold_hours, strategy_type, One)

leverage_notional_multiplier(book, strategy_type) ==
  Get(book.strategy_leverage_notional_multiplier, strategy_type, One)

asset_from_symbol(symbol) ==
  LET raw == Upper(Strip(symbol))
      slash == FirstIndex(raw, { "/" })
      first == Strip(SubSeq(raw, 1, slash - 1))
      parts == SplitOn(raw, UpperAlnum, << >>)
  IN  IF raw = << >> THEN s_UNKNOWN
      ELSE IF slash # 0 THEN (IF first = << >> THEN s_UNKNOWN ELSE first)
      ELSE IF parts # << >> THEN parts[1] ELSE s_UNKNOWN

\* A limit that is missing everywhere read as 0.
_read_limit_missing_is_zero(book, row, key, default_unbounded) ==
  IF key \in DOMAIN row THEN Max(0, row[key])
  ELSE IF key \in DOMAIN book.defaults THEN Max(0, book.defaults[key])
  ELSE 0

_read_limit(book, row, key, default_unbounded) ==
  IF key \in DOMAIN row THEN Max(0, row[key])
  ELSE IF key \in DOMAIN book.defaults THEN Max(0, book.defaults[key])
  ELSE IF default_unbounded THEN UNBOUNDED_USD ELSE 0

_read_value(book, row, key, fallback) ==
  IF key \in DOMAIN row THEN Max(0, row[key])
  ELSE IF key \in DOMAIN book.defaults THEN Max(0, book.defaults[key])
  ELSE fallback

constraints_for(book, raw_venue, asset) ==
  LET venue_key == ConstraintBook_canonical_venue(raw_venue, book.known_venues)
      stripped == Upper(Strip(asset))
      asset_key == IF stripped = << >> THEN s_UNKNOWN ELSE stripped
      row == Get(book.rules, << venue_key, asset_key >>, EmptyMap)
  IN  [ venue_key |-> venue_key,
        asset |-> asset_key,
        max_position_usd |-> _read_limit(book, row, "max_position_usd", TRUE),
        available_inventory_usd |-> _read_limit(book, row, "available_inventory_usd", FALSE),
        max_borrow_usd |-> _read_limit(book, row, "max_borrow_usd", FALSE),
        borrow_rate_bps_per_hour |-> _read_value(book, row, "borrow_rate_bps_per_hour", 0),
        max_leverage |-> _read_value(book, row, "max_leverage", 0) ]

\* ------------------------------------------------------------------ scorer
\* A clamp that forgets its lower bound.
_clamp_no_floor(value, lo, hi) == Min(hi, value)

_clamp(value, lo, hi) == Max(lo, Min(hi, value))

\* One addend of the risk score, weight * _clamp(value / scale), as a
\* numerator over RiskDen; weight in hundredths, scale in whole bps.
RiskDen == 6 * 100000
RiskTerm(weight, value, scale) == weight * (60 \div scale) * _clamp(value, 0, scale * Micro)

\* The risk score in ten-thousandths.
_risk_score(item, net_edge_bps, transfer_risk_bps) ==
  RoundSumDiv(
    << RiskTerm(18, item.fees_bps, 20),
       RiskTerm(22, item.slippage_bps, 20),
       RiskTerm(16, item.latency_risk_bps, 12),
       RiskTerm(16, transfer_risk_bps, 12),
       RiskTerm(14, item.borrow_cost_bps, 12),
       RiskTerm(14, 10 * Micro - Max(net_edge_bps, 0), 10) >>,
    RiskDen)

\* A max() that keeps the last maximal component.
_dominant_drag_last_max(item, transfer_risk_bps) ==
  LET components ==
        << << "fees", item.fees_bps >>, << "slippage", item.slippage_bps >>,
           << "latency", item.latency_risk_bps >>, << "transfer", transfer_risk_bps >>,
           << "borrow", item.borrow_cost_bps >> >>
      best == CHOOSE i \in DOMAIN components :
                /\ \A j \in DOMAIN components : components[j][2] <= components[i][2]
                /\ \A j \in (i + 1) .. Len(components) : components[j][2] < components[i][2]
  IN  components[best][1]

\* max() over the dict's items returns the first maximal one.
_dominant_drag(item, transfer_risk_bps) ==
  LET components ==
        << << "fees", item.fees_bps >>, << "slippage", item.slippage_bps >>,
           << "latency", item.latency_risk_bps >>, << "transfer", transfer_risk_bps >>,
           << "borrow", item.borrow_cost_bps >> >>
      best == CHOOSE i \in DOMAIN components :
                /\ \A j \in DOMAIN components : components[j][2] <= components[i][2]
                /\ \A j \in 1 .. (i - 1) : components[j][2] < components[i][2]
  IN  components[best][1]

When(cond, reason) == IF cond THEN << reason >> ELSE << >>

\* The domination tests chained with elif: the first that holds hides the rest.
_rejection_reasons_elif(item, net_edge_bps, risk_score, transfer_risk_bps, min_net_edge_bps, max_risk_score, constraints_enabled, position_limit_exceeded, inventory_unavailable, borrow_limit_exceeded, leverage_limit_exceeded) ==
  LET gross == item.gross_edge_bps
  IN  When(net_edge_bps < min_net_edge_bps, "net_edge_below_threshold")
      \o When(risk_score > max_risk_score, "risk_score_above_threshold")
      \o ( IF item.fees_bps >= gross THEN << "fee_dominated" >>
           ELSE IF item.slippage_bps >= gross THEN << "slippage_dominated" >>
           ELSE IF item.latency_risk_bps + transfer_risk_bps >= gross
           THEN << "latency_transfer_dominated" >>
           ELSE When(item.borrow_cost_bps > 0 /\ item.borrow_cost_bps >= gross,
                     "borrow_dominated") )
      \o When(constraints_enabled /\ position_limit_exceeded, "position_limit_exceeded")
      \o When(constraints_enabled /\ inventory_unavailable, "inventory_unavailable")
      \o When(constraints_enabled /\ borrow_limit_exceeded, "borrow_limit_exceeded")
      \o When(constraints_enabled /\ leverage_limit_exceeded, "leverage_limit_exceeded")

\* The reasons without the four constraint reasons.
_rejection_reasons_no_constraints(item, net_edge_bps, risk_score, transfer_risk_bps, min_net_edge_bps, max_risk_score, constraints_enabled, position_limit_exceeded, inventory_unavailable, borrow_limit_exceeded, leverage_limit_exceeded) ==
  LET gross == item.gross_edge_bps
  IN  When(net_edge_bps < min_net_edge_bps, "net_edge_below_threshold")
      \o When(risk_score > max_risk_score, "risk_score_above_threshold")
      \o When(item.fees_bps >= gross, "fee_dominated")
      \o When(item.slippage_bps >= gross, "slippage_dominated")
      \o When(item.latency_risk_bps + transfer_risk_bps >= gross, "latency_transfer_dominated")
      \o When(item.borrow_cost_bps > 0 /\ item.borrow_cost_bps >= gross, "borrow_dominated")

\* _rejection_reasons, lines 490-530.
_rejection_reasons(item, net_edge_bps, risk_score, transfer_risk_bps, min_net_edge_bps, max_risk_score, constraints_enabled, position_limit_exceeded, inventory_unavailable, borrow_limit_exceeded, leverage_limit_exceeded) ==
  LET gross == item.gross_edge_bps
  IN  When(net_edge_bps < min_net_edge_bps, "net_edge_below_threshold")
      \o When(risk_score > max_risk_score, "risk_score_above_threshold")
      \o When(item.fees_bps >= gross, "fee_dominated")
      \o When(item.slippage_bps >= gross, "slippage_dominated")
      \o When(item.latency_risk_bps + transfer_risk_bps >= gross, "latency_transfer_dominated")
      \o When(item.borrow_cost_bps > 0 /\ item.borrow_cost_bps >= gross, "borrow_dominated")
      \o When(constraints_enabled /\ position_limit_exceeded, "position_limit_exceeded")
      \o When(constraints_enabled /\ inventory_unavailable, "inventory_unavailable")
      \o When(constraints_enabled /\ borrow_limit_exceeded, "borrow_limit_exceeded")
      \o When(constraints_enabled /\ leverage_limit_exceeded, "leverage_limit_exceeded")

_render_limit(limit) == IF limit >= UNBOUNDED_USD \div 2 THEN 0 ELSE limit

\* a / b as a rounded number of millionths; the fraction is reduced first.
RatioMicro(a, b) ==
  LET g == Gcd(a, b) IN RoundHalfEven((a \div g) * Micro, b \div g)

\* score_item, lines 558-571: base fees and the profile multipliers.
score_item_frictions(item, execution_profile, fee_multiplier, slippage_multiplier, latency_multiplier, transfer_delay_multiplier, transfer_penalty_bps_per_min, fee_table) ==
  LET fee_estimate == estimate_total_fee_bps(fee_table, item, execution_profile)
      fee_model_base_fees_bps == IF fee_estimate.some THEN fee_estimate.total ELSE item.fees_bps
      transfer_delay_min == RoundMul6(item.transfer_delay_min, transfer_delay_multiplier)
  IN  [ fee_model_base_fees_bps |-> fee_model_base_fees_bps,
        fee_mode |-> IF fee_estimate.some THEN fee_estimate.fee_mode ELSE "candidate_source",
        fee_model_used |-> fee_estimate.some,
        fees_bps |-> RoundMul6(fee_model_base_fees_bps, fee_multiplier),
        slippage_bps |-> RoundMul6(item.slippage_bps, slippage_multiplier),
        latency_risk_bps |-> RoundMul6(item.latency_risk_bps, latency_multiplier),
        transfer_delay_min |-> transfer_delay_min,
        transfer_risk_bps |->
          RoundMul4(transfer_delay_min, transfer_penalty_bps_per_min) ]

\* score_item, lines 578-589: the values the locals keep when the constraint
\* book is disabled.
ConstraintsOff ==
  [ inventory_available_usd |-> 0, max_position_usd |-> 0,
    borrow_required_usd |-> 0, borrow_capacity_usd |-> 0,
    borrow_rate_bps_per_hour |-> 0, max_leverage |-> 0, leverage_used |-> 0,
    borrow_cost_bps |-> 0, position_limit_exceeded |-> FALSE,
    inventory_unavailable |-> FALSE, borrow_limit_exceeded |-> FALSE,
    leverage_limit_exceeded |-> FALSE ]

\* A borrow cost that charges one hour whatever the strategy's hold time.
borrow_cost_one_hour(size_usd, borrow_used_usd, borrow_rate_bps_per_hour, hold_hours_, g) ==
  IF size_usd > 0 /\ borrow_used_usd > 0
  THEN RoundHalfEven((borrow_used_usd \div g) * borrow_rate_bps_per_hour, size_usd \div g)
  ELSE 0

\* score_item, lines 633-638.
borrow_cost(size_usd, borrow_used_usd, borrow_rate_bps_per_hour, hold_hours_, g) ==
  IF size_usd > 0 /\ borrow_used_usd > 0
  THEN RoundHalfEven((borrow_used_usd \div g) * borrow_rate_bps_per_hour * hold_hours_.n,
                     (size_usd \div g) * hold_hours_.d)
  ELSE 0

\* A leverage check that only compares the ratio.
leverage_check_ratio_only(max_leverage, leverage_notional_usd, equity_base_usd, leverage_used) ==
  IF max_leverage > 0 /\ leverage_notional_usd > 0
  THEN ExceedsEps(leverage_used, max_leverage)
  ELSE FALSE

\* score_item, lines 623-631.
leverage_check(max_leverage, leverage_notional_usd, equity_base_usd, leverage_used) ==
  IF max_leverage > 0 /\ leverage_notional_usd > 0
  THEN equity_base_usd <= 0 \/ ExceedsEps(leverage_used, max_leverage)
  ELSE FALSE

\* score_item, lines 596-638, given the two legs' limits.
constraint_checks(size_usd, inventory_required_usd, hold_hours_, leverage_notional_usd, effective_max_position, inventory_available_usd, borrow_capacity_usd, borrow_rate_bps_per_hour, leverage_caps) ==
  LET max_leverage ==
        IF leverage_caps = {} THEN 0
        ELSE CHOOSE v \in leverage_caps : \A w \in leverage_caps : v <= w
      borrow_required_usd == Max(0, inventory_required_usd - inventory_available_usd)
      equity_base_usd == Max(0, inventory_available_usd)
      leverage_used ==
        IF leverage_notional_usd > 0 /\ equity_base_usd > 0
        THEN RatioMicro(leverage_notional_usd, equity_base_usd) ELSE 0
      borrow_used_usd == Min(borrow_required_usd, borrow_capacity_usd)
  IN  [ inventory_available_usd |-> inventory_available_usd,
        max_position_usd |-> _render_limit(effective_max_position),
        borrow_required_usd |-> borrow_required_usd,
        borrow_capacity_usd |-> borrow_capacity_usd,
        borrow_rate_bps_per_hour |-> borrow_rate_bps_per_hour,
        max_leverage |-> max_leverage,
        leverage_used |-> leverage_used,
        borrow_cost_bps |->
          borrow_cost(size_usd, borrow_used_usd, borrow_rate_bps_per_hour, hold_hours_,
                      Gcd(borrow_used_usd, size_usd)),
        position_limit_exceeded |-> ExceedsEps(size_usd, effective_max_position),
        inventory_unavailable |->
          inventory_required_usd > 0 /\ inventory_available_usd <= 0
            /\ borrow_capacity_usd <= 0,
        borrow_limit_exceeded |-> ExceedsEps(borrow_required_usd, borrow_capacity_usd),
        leverage_limit_exceeded |->
          leverage_check(max_leverage, leverage_notional_usd, equity_base_usd,
                         leverage_used) ]

\* Inventory read from the buy leg instead of the sell leg.
effective_limits_buy_inventory(item, hold_hours_, leverage_notional_usd, buy_constraints, sell_constraints) ==
  constraint_checks(
    item.size_usd,
    IF item.strategy_type \in INVENTORY_REQUIRED_STRATEGIES THEN item.size_usd ELSE 0,
    hold_hours_, leverage_notional_usd,
    Min(buy_constraints.max_position_usd, sell_constraints.max_position_usd),
    buy_constraints.available_inventory_usd,
    sell_constraints.max_borrow_usd,
    sell_constraints.borrow_rate_bps_per_hour,
    { v \in { buy_constraints.max_leverage, sell_constraints.max_leverage } : v > 0 })

\* Borrow capacity read from the buy leg instead of the sell leg.
effective_limits_buy_capacity(item, hold_hours_, leverage_notional_usd, buy_constraints, sell_constraints) ==
  constraint_checks(
    item.size_usd,
    IF item.strategy_type \in INVENTORY_REQUIRED_STRATEGIES THEN item.size_usd ELSE 0,
    hold_hours_, leverage_notional_usd,
    Min(buy_constraints.max_position_usd, sell_constraints.max_position_usd),
    sell_constraints.available_inventory_usd,
    buy_constraints.max_borrow_usd,
    sell_constraints.borrow_rate_bps_per_hour,
    { v \in { buy_constraints.max_leverage, sell_constraints.max_leverage } : v > 0 })

\* score_item, lines 596-621: the effective limits of the two legs.
effective_limits(item, hold_hours_, leverage_notional_usd, buy_constraints, sell_constraints) ==
  constraint_checks(
    item.size_usd,
    IF item.strategy_type \in INVENTORY_REQUIRED_STRATEGIES THEN item.size_usd ELSE 0,
    hold_hours_, leverage_notional_usd,
    Min(buy_constraints.max_position_usd, sell_constraints.max_position_usd),
    sell_constraints.available_inventory_usd,
    sell_constraints.max_borrow_usd,
    sell_constraints.borrow_rate_bps_per_hour,
    { v \in { buy_constraints.max_leverage, sell_constraints.max_leverage } : v > 0 })

\* score_item, lines 578-638: the constraint book's limits and borrow cost.
score_item_constraints(item, hold_hours_, leverage_notional_usd, asset, constraint_book) ==
  IF ~constraint_book.enabled THEN ConstraintsOff
  ELSE effective_limits(item, hold_hours_, leverage_notional_usd,
                        constraints_for(constraint_book, item.buy_venue, asset),
                        constraints_for(constraint_book, item.sell_venue, asset))

\* A net edge that leaves the borrow cost out.
score_item_net_edge_no_borrow(item, f, c) ==
  Round4(item.gross_edge_bps - f.fees_bps - f.slippage_bps - f.latency_risk_bps
           - f.transfer_risk_bps)

\* score_item, lines 640-648.
score_item_net_edge(item, f, c) ==
  Round4(item.gross_edge_bps - f.fees_bps - f.slippage_bps - f.latency_risk_bps
           - f.transfer_risk_bps - c.borrow_cost_bps)

\* score_item, lines 660-665.
constraint_blocked(c) ==
  c.position_limit_exceeded \/ c.borrow_limit_exceeded
    \/ c.inventory_unavailable \/ c.leverage_limit_exceeded

\* A gate that leaves the leverage check out.
score_item_is_qualified_no_leverage(net_edge_bps, risk_score, min_net_edge_bps, max_risk_score, c) ==
  /\ net_edge_bps >= min_net_edge_bps
  /\ risk_score <= max_risk_score
  /\ ~(c.position_limit_exceeded \/ c.borrow_limit_exceeded \/ c.inventory_unavailable)

\* score_item, lines 666-670.
score_item_is_qualified(net_edge_bps, risk_score, min_net_edge_bps, max_risk_score, c) ==
  net_edge_bps >= min_net_edge_bps /\ risk_score <= max_risk_score /\ ~constraint_blocked(c)

\* score_item, lines 650-656.
scoring_view(item, f, c) ==
  [ gross_edge_bps |-> item.gross_edge_bps, fees_bps |-> f.fees_bps,
    slippage_bps |-> f.slippage_bps, latency_risk_bps |-> f.latency_risk_bps,
    borrow_cost_bps |-> c.borrow_cost_bps ]

\* The locals of score_item that the ScoredOpportunity record does not carry.
LocalFields ==
  { "position_limit_exceeded", "inventory_unavailable", "borrow_limit_exceeded",
    "leverage_limit_exceeded" }

\* score_item, lines 672-728: the returned record (with the four locals).
ScoredOpportunity(item, execution_profile, min_net_edge_bps, max_risk_score, constraints_enabled, f, hold_hours_, leverage_notional_multiplier_, leverage_notional_usd, c, view, net_edge_bps, risk_score, is_qualified) ==
  [ detected_at |-> item.detected_at,
    strategy_type |-> item.strategy_type,
    symbol |-> item.symbol,
    buy_venue |-> item.buy_venue,
    sell_venue |-> item.sell_venue,
    execution_profile |-> execution_profile,
    constraints_enabled |-> constraints_enabled,
    gross_edge_bps |-> item.gross_edge_bps,
    source_fees_bps |-> item.fees_bps,
    fee_model_base_fees_bps |-> f.fee_model_base_fees_bps,
    fee_mode |-> f.fee_mode,
    fee_model_used |-> f.fee_model_used,
    source_slippage_bps |-> item.slippage_bps,
    source_latency_risk_bps |-> item.latency_risk_bps,
    source_transfer_delay_min |-> item.transfer_delay_min,
    fees_bps |-> f.fees_bps,
    slippage_bps |-> f.slippage_bps,
    latency_risk_bps |-> f.latency_risk_bps,
    transfer_delay_min |-> f.transfer_delay_min,
    transfer_risk_bps |-> f.transfer_risk_bps,
    hold_hours |-> hold_hours_,
    inventory_available_usd |-> c.inventory_available_usd,
    max_position_usd |-> c.max_position_usd,
    borrow_required_usd |-> c.borrow_required_usd,
    borrow_capacity_usd |-> c.borrow_capacity_usd,
    borrow_rate_bps_per_hour |-> c.borrow_rate_bps_per_hour,
    max_leverage |-> c.max_leverage,
    leverage_notional_multiplier |-> leverage_notional_multiplier_,
    leverage_notional_usd |-> leverage_notional_usd,
    leverage_used |-> c.leverage_used,
    borrow_cost_bps |-> c.borrow_cost_bps,
    net_edge_bps |-> net_edge_bps,
    risk_score |-> risk_score,
    size_usd |-> item.size_usd,
    dominant_drag |-> _dominant_drag(view, f.transfer_risk_bps),
    is_qualified |-> is_qualified,
    rejection_reasons |->
      IF is_qualified THEN << >>
      ELSE _rejection_reasons(view, net_edge_bps, risk_score, f.transfer_risk_bps,
                              min_net_edge_bps, max_risk_score, constraints_enabled,
                              c.position_limit_exceeded, c.inventory_unavailable,
                              c.borrow_limit_exceeded, c.leverage_limit_exceeded),
    position_limit_exceeded |-> c.position_limit_exceeded,
    inventory_unavailable |-> c.inventory_unavailable,
    borrow_limit_exceeded |-> c.borrow_limit_exceeded,
    leverage_limit_exceeded |-> c.leverage_limit_exceeded ]

\* score_item, lines 658-670: risk score and qualification.
score_item_gate(item, execution_profile, min_net_edge_bps, max_risk_score, constraints_enabled, f, hold_hours_, leverage_notional_multiplier_, leverage_notional_usd, c, view, net_edge_bps, risk_score) ==
  ScoredOpportunity(item, execution_profile, min_net_edge_bps, max_risk_score,
                    constraints_enabled, f, hold_hours_, leverage_notional_multiplier_,
                    leverage_notional_usd, c, view, net_edge_bps, risk_score,
                    score_item_is_qualified(net_edge_bps, risk_score, min_net_edge_bps,
                                            max_risk_score, c))

\* score_item, lines 640-658: net edge, scoring view and risk score.
score_item_edge(item, execution_profile, min_net_edge_bps, max_risk_score, constraints_enabled, f, hold_hours_, leverage_notional_multiplier_, leverage_notional_usd, c, net_edge_bps) ==
  score_item_gate(item, execution_profile, min_net_edge_bps, max_risk_score,
                  constraints_enabled, f, hold_hours_, leverage_notional_multiplier_,
                  leverage_notional_usd, c, scoring_view(item, f, c), net_edge_bps,
                  _risk_score(scoring_view(item, f, c), net_edge_bps, f.transfer_risk_bps))

\* score_item, lines 573-638: hold hours, leverage notional and constraints.
score_item_overlay(item, execution_profile, min_net_edge_bps, max_risk_score, constraint_book, f, hold_hours_, leverage_notional_multiplier_, leverage_notional_usd, c) ==
  score_item_edge(item, execution_profile, min_net_edge_bps, max_risk_score,
                  constraint_book.enabled, f, hold_hours_, leverage_notional_multiplier_,
                  leverage_notional_usd, c, score_item_net_edge(item, f, c))

leverage_notional(size_usd, multiplier) == RoundHalfEven(size_usd * multiplier.n, multiplier.d)

score_item(item, execution_profile, fee_multiplier, slippage_multiplier, latency_multiplier, transfer_delay_multiplier, transfer_penalty_bps_per_min, min_net_edge_bps, max_risk_score, constraint_book, fee_table) ==
  score_item_overlay(
    item, execution_profile, min_net_edge_bps, max_risk_score, constraint_book,
    score_item_frictions(item, execution_profile, fee_multiplier, slippage_multiplier,
                         latency_multiplier, transfer_delay_multiplier,
                         transfer_penalty_bps_per_min, fee_table),
    hold_hours(constraint_book, item.strategy_type),
    leverage_notional_multiplier(constraint_book, item.strategy_type),
    leverage_notional(item.size_usd,
                      leverage_notional_multiplier(constraint_book, item.strategy_type)),
    score_item_constraints(
      item, hold_hours(constraint_book, item.strategy_type),
      leverage_notional(item.size_usd,
                        leverage_notional_multiplier(constraint_book, item.strategy_type)),
      asset_from_symbol(item.symbol), constraint_book))

\* The ScoredOpportunity as written to the shortlist.
Emitted(s) == [ k \in DOMAIN s \ LocalFields |-> s[k] ]

\* The keys score_item reads with item[...] (lines 552-556 and 690-697); an
\* item that is no object, or an object without one of them, raises.
REQUIRED_ITEM_KEYS ==
  { "fees_bps", "slippage_bps", "latency_risk_bps", "transfer_delay_min", "size_usd",
    "detected_at", "strategy_type", "symbol", "buy_venue", "sell_venue", "gross_edge_bps" }
WellFormed(item) == REQUIRED_ITEM_KEYS \subseteq DOMAIN item

\* What --input names: no file, a file that is not JSON, or a JSON value. An
\* array holds its items, an object its keys, a string its characters; a
\* key or a character, being a JSON string, is the item JsonString.
JsonString == [ json_type |-> "string" ]
JsonArray(items) == [ kind |-> "array", items |-> items ]
JsonObject(key_count) == [ kind |-> "object", items |-> [ i \in 1 .. key_count |-> JsonString ] ]
JsonText(length) == [ kind |-> "string", items |-> [ i \in 1 .. length |-> JsonString ] ]
Without(item, key) == [ k \in DOMAIN item \ { key } |-> item[k] ]

\* `for item in data` can be started on an array, an object or a string.
Iterable(file) == file.kind \in { "array", "object", "string" }

\* -------------------------------------------------------------------- main
\* sorted(scored, key=lambda x: (x.is_qualified, x.net_edge_bps), reverse=True):
\* a stable sort, so items with equal keys keep their input order.
\* A sort key that leaves is_qualified out.
KeyLess_net_only(a, b) == a.net_edge_bps < b.net_edge_bps

KeyLess(a, b) ==
  \/ ~a.is_qualified /\ b.is_qualified
  \/ a.is_qualified = b.is_qualified /\ a.net_edge_bps < b.net_edge_bps
RECURSIVE InsertByKey(_, _)
InsertByKey(x, sorted) ==
  IF sorted = << >> THEN << x >>
  ELSE IF ~KeyLess(Head(sorted), x)
       THEN << Head(sorted) >> \o InsertByKey(x, Tail(sorted))
       ELSE << x >> \o sorted
RECURSIVE SortedByKeyDesc(_)
SortedByKeyDesc(seq) ==
  IF seq = << >> THEN << >>
  ELSE InsertByKey(seq[Len(seq)], SortedByKeyDesc(SubSeq(seq, 1, Len(seq) - 1)))

\* An argparse option: << >> when left at its default None, else << value >>.
None == << >>
Some(v) == << v >>

\* sorted(rejected, key=lambda x: x.net_edge_bps, reverse=True): stable.
RECURSIVE InsertByNetEdge(_, _)
InsertByNetEdge(x, sorted) ==
  IF sorted = << >> THEN << x >>
  ELSE IF Head(sorted).net_edge_bps >= x.net_edge_bps
       THEN << Head(sorted) >> \o InsertByNetEdge(x, Tail(sorted))
       ELSE << x >> \o sorted
RECURSIVE SortedByNetEdgeDesc(_)
SortedByNetEdgeDesc(seq) ==
  IF seq = << >> THEN << >>
  ELSE InsertByNetEdge(seq[Len(seq)], SortedByNetEdgeDesc(SubSeq(seq, 1, Len(seq) - 1)))

\* collections.Counter: for each key, the occurrences summed over the items.
Counter(items, keys, occurrences(_, _)) ==
  [ k \in keys |-> SumSeq([ i \in DOMAIN items |-> occurrences(items[i], k) ]) ]

\* _build_summary, line 786: the slice [:10].
TOP_REJECTED == 10

\* _build_summary, lines 772-787: one entry of top_rejected.
top_rejected_entry(s) ==
  [ symbol |-> s.symbol, path |-> << s.buy_venue, "->", s.sell_venue >>,
    net_edge_bps |-> s.net_edge_bps, risk_score |-> s.risk_score,
    dominant_drag |-> s.dominant_drag, borrow_cost_bps |-> s.borrow_cost_bps,
    max_leverage |-> s.max_leverage,
    leverage_notional_multiplier |-> s.leverage_notional_multiplier,
    leverage_notional_usd |-> s.leverage_notional_usd,
    leverage_used |-> s.leverage_used, rejection_reasons |-> s.rejection_reasons ]

\* The summary built from the rejected list handed in.
summary_of(scored_, rejected, execution_profile) ==
  LET reasons == UNION { Range(rejected[i].rejection_reasons) : i \in DOMAIN rejected }
      drags == { rejected[i].dominant_drag : i \in DOMAIN rejected }
      InReasons(s, k) == Cardinality({ j \in DOMAIN s.rejection_reasons : s.rejection_reasons[j] = k })
      IsDrag(s, k) == IF s.dominant_drag = k THEN 1 ELSE 0
      ranked == SortedByNetEdgeDesc(rejected)
  IN  [ execution_profile |-> execution_profile,
        counts |->
          [ candidates |-> Len(scored_),
            qualified |-> Len(scored_) - Len(rejected),
            rejected |-> Len(rejected),
            fee_model_applied |-> Len(SelectSeq(scored_, LAMBDA s : s.fee_model_used)) ],
        rejection_reason_counts |-> Counter(rejected, reasons, InReasons),
        dominant_drag_counts |-> Counter(rejected, drags, IsDrag),
        top_rejected |->
          [ i \in 1 .. Min(TOP_REJECTED, Len(ranked)) |-> top_rejected_entry(ranked[i]) ] ]

\* A summary that tallies every scored item.
_build_summary_all_items(scored_, execution_profile) ==
  summary_of(scored_, scored_, execution_profile)

\* _build_summary, lines 745-788 (generated_at, the three paths and the
\* echoed rule parameters are left out).
_build_summary(scored_, execution_profile) ==
  summary_of(scored_, SelectSeq(scored_, LAMBDA s : ~s.is_qualified), execution_profile)

\* main, lines 932-970: an explicit option wins over the profile's value, and
\* an enabled fee table makes the default fee multiplier 1.
Params(a, ft) ==
  LET profile == EXECUTION_PROFILES[a.execution_profile]
      opt(k) == IF a[k] # None THEN a[k][1] ELSE profile[k]
  IN  [ fee_multiplier |->
          IF a.fee_multiplier # None THEN a.fee_multiplier[1]
          ELSE IF ft.enabled THEN One ELSE profile.fee_multiplier,
        slippage_multiplier |-> opt("slippage_multiplier"),
        latency_multiplier |-> opt("latency_multiplier"),
        transfer_delay_multiplier |-> opt("transfer_delay_multiplier"),
        transfer_penalty_bps_per_min |-> opt("transfer_penalty_bps_per_min"),
        min_net_edge_bps |-> opt("min_net_edge_bps"),
        max_risk_score |-> opt("max_risk_score") ]

\* The orders in which a process may iterate over a set of strings.
Perms(S) ==
  { q \in [ 1 .. Cardinality(S) -> S ] : \A i, j \in DOMAIN q : q[i] = q[j] => i = j }

VenuesOf(rules) == { k[1] : k \in DOMAIN rules }

\* ------------------------------------------------------------------ inputs
s_binance == << "b","i","n","a","n","c","e" >>
s_bybit == << "b","y","b","i","t" >>
s_okx == << "o","k","x" >>
s_htx == << "h","t","x" >>
s_now == << "n","o","w" >>
s_long_binance_perp == << "l","o","n","g","_" >> \o s_binance \o << "_" >> \o s_perp
s_short_bybit_perp == << "s","h","o","r","t","_" >> \o s_bybit \o << "_" >> \o s_perp
s_Bybit_spot == << " ","B","y","b","i","t","_" >> \o s_spot
s_okx_htx == s_okx \o << "_" >> \o s_htx
s_BTC == << "B","T","C" >>
s_ETH == << "E","T","H" >>
s_BTC_USDT == s_BTC \o << "/","U","S","D","T" >>
s_ETH_USDT == s_ETH \o << "/","U","S","D","T" >>

Fees(taker, maker, vip) == [ taker |-> taker, maker |-> maker, maker_vip |-> vip ]

\* A fee table in the shape of data/execution_fee_table.latest.json.
FeePayloadCex ==
  [ defaults |->
      [ spot |-> Fees(10000000, 8000000, 3500000),
        perp |-> Fees(5500000, 2000000, 900000),
        dex |-> Fees(6000000, 6000000, 5000000),
        unknown |-> Fees(10000000, 8000000, 4000000) ],
    rules |->
      ( << s_binance, "spot" >> :> Fees(10000000, 8000000, 2800000) )
      @@ ( << s_binance, "perp" >> :> Fees(5000000, 2000000, 800000) )
      @@ ( << s_bybit, "spot" >> :> Fees(9000000, 7500001, 3200000) )
      @@ ( << s_bybit, "unknown" >> :> Fees(12000000, 9000000, 5000000) ) ]

\* Two venues whose names have the same length.
FeePayloadTies ==
  [ defaults |-> EmptyMap,
    rules |->
      ( << s_okx, "spot" >> :> Fees(8000000, 6000000, 3000000) )
      @@ ( << s_htx, "spot" >> :> Fees(20000000, 15000000, 10000000) ) ]

\* A constraint book in the shape of data/execution_constraints.latest.json.
BookPayloadA ==
  [ defaults |-> [ max_position_usd |-> 15000, max_leverage |-> 3000000 ],
    strategy_hold_hours |-> EmptyMap,
    strategy_leverage_notional_multiplier |-> EmptyMap,
    rules |->
      ( << s_binance, s_BTC >> :>
          [ max_position_usd |-> 25000, available_inventory_usd |-> 5000,
            max_borrow_usd |-> 5000, borrow_rate_bps_per_hour |-> 800000 ] )
      @@ ( << s_bybit, s_BTC >> :>
          [ available_inventory_usd |-> 2500, max_borrow_usd |-> 10000,
            borrow_rate_bps_per_hour |-> 15000001, max_leverage |-> 5000000 ] )
      @@ ( << s_binance, s_ETH >> :>
          [ max_position_usd |-> 25000, available_inventory_usd |-> 20000,
            max_borrow_usd |-> 0, max_leverage |-> 0 ] ) ]

\* No position limit, no leverage cap, nothing to lend.
BookPayloadB ==
  [ defaults |-> EmptyMap,
    strategy_hold_hours |-> ( "cex_cex" :> Frac(1, 2) ),
    strategy_leverage_notional_multiplier |-> ( "cex_cex" :> Frac(3, 2) ),
    rules |->
      ( << s_bybit, s_BTC >> :>
          [ available_inventory_usd |-> 0, max_borrow_usd |-> 0 ] ) ]

\* Nothing to sell but something to borrow on one venue, inventory and a
\* leverage cap on the other, and a strategy whose leverage multiplier is 0.
BookPayloadC ==
  [ defaults |-> [ max_borrow_usd |-> 0 ],
    strategy_hold_hours |-> ( "cex_dex" :> Frac(0, 1) ),
    strategy_leverage_notional_multiplier |-> ( "perp_spot_basis" :> Frac(0, 1) ),
    rules |->
      ( << s_binance, s_BTC >> :>
          [ max_position_usd |-> 10000, available_inventory_usd |-> 0,
            max_borrow_usd |-> 5000, borrow_rate_bps_per_hour |-> 2500000,
            max_leverage |-> 3000000 ] )
      @@ ( << s_bybit, s_BTC >> :>
          [ available_inventory_usd |-> 5000, borrow_rate_bps_per_hour |-> 1000000,
            max_leverage |-> 4000000 ] ) ]

\* A table that lists a venue whose name occurs inside the word "unknown".
FeePayloadNow ==
  [ defaults |-> EmptyMap,
    rules |-> ( << s_now, "spot" >> :> Fees(7000000, 5000000, 2000000) ) ]
BookPayloadNow ==
  [ defaults |-> EmptyMap,
    strategy_hold_hours |-> EmptyMap,
    strategy_leverage_notional_multiplier |-> EmptyMap,
    rules |-> ( << s_now, s_BTC >> :> [ max_position_usd |-> 1000 ] ) ]
BookPayloadTies ==
  [ defaults |-> EmptyMap,
    strategy_hold_hours |-> EmptyMap,
    strategy_leverage_notional_multiplier |-> EmptyMap,
    rules |->
      ( << s_okx, s_BTC >> :> [ max_position_usd |-> 1000 ] )
      @@ ( << s_htx, s_BTC >> :> [ max_position_usd |-> 50000 ] ) ]

\* The run_at of the builder run that wrote the candidates.
RunAt == "2026-01-01T00:00:00+00:00"

Cand(strategy_type, symbol, buy_venue, sell_venue, gross, fees, slippage, latency, delay, size) ==
  [ detected_at |-> RunAt, strategy_type |-> strategy_type, symbol |-> symbol, buy_venue |-> buy_venue,
    sell_venue |-> sell_venue, gross_edge_bps |-> gross, fees_bps |-> fees,
    slippage_bps |-> slippage, latency_risk_bps |-> latency,
    transfer_delay_min |-> delay, size_usd |-> size ]

MkArgs(profile, fee_mult, slip_mult, penalty, min_edge, max_risk) ==
  [ execution_profile |-> profile, fee_multiplier |-> fee_mult,
    slippage_multiplier |-> slip_mult, latency_multiplier |-> None,
    transfer_delay_multiplier |-> None, transfer_penalty_bps_per_min |-> penalty,
    min_net_edge_bps |-> min_edge, max_risk_score |-> max_risk ]

DefaultArgs(profile) == MkArgs(profile, None, None, None, None, None)

\* Candidate arrays of a scoring run: two that tie on every number and differ
\* in symbol, a fee-heavy one, a funding carry, and a DEX leg with a wide
\* edge and a size above the default position limit.
RunCandidates ==
  { Cand("cex_cex", s_BTC_USDT, s_binance, s_bybit,
         20000000, 4000000, 3000000, 1000000, 2000000, 10000),
    Cand("cex_cex", s_ETH_USDT, s_binance, s_bybit,
         20000000, 4000000, 3000000, 1000000, 2000000, 10000),
    Cand("cex_cex", s_BTC_USDT, s_bybit, s_binance,
         12000000, 7000000, 1000000, 1000000, 1000000, 10000),
    Cand("funding_carry_cex_cex", s_BTC_USDT, s_long_binance_perp, s_short_bybit_perp,
         30000000, 8000000, 2000000, 1500000, 0, 10000),
    Cand("cex_dex", s_ETH_USDT, s_jupiter, s_binance,
         39123456, 7000000, 1000000, 2400000, 12000000, 20000) }

RunArgs ==
  { DefaultArgs("taker_default"), DefaultArgs("maker_inventory"),
    MkArgs("taker_default", None, None, None, Some(0), Some(10000)) }

RECURSIVE SeqsUpTo(_, _)
SeqsUpTo(S, n) ==
  IF n = 0 THEN { << >> }
  ELSE LET shorter == SeqsUpTo(S, n - 1)
       IN  shorter \cup { Append(q, x) : q \in { r \in shorter : Len(r) = n - 1 }, x \in S }

\* One candidate, field by field: negative, fractional, half-way and
\* above-the-clamp values.
ItemCandidates ==
  { Cand(st, s_BTC_USDT, leg[1], leg[2], gross, fees, slippage, risk[1], risk[2], leg[3]) :
      st \in Strategies,
      leg \in { << s_binance, s_bybit, 10000 >>, << s_bybit, s_binance, 10000 >>,
                << s_long_binance_perp, s_short_bybit_perp, 20000 >> },
      gross \in { -1000000, 6000049, 20000050 },
      fees \in { -500000, 4000000, 25000000 },
      slippage \in { 1000001, 30000000 },
      risk \in { << 1000000, 2000001 >>, << 15000000, 2000001 >>,
                 << 15000000, 40000000 >> } }

ItemArgs ==
  { DefaultArgs("taker_default"), DefaultArgs("maker_inventory_vip"),
    MkArgs("maker_inventory", Some(Frac(21, 50)), None, None, None, None),
    MkArgs("taker_default", None, Some(Frac(2, 3)), Some(Frac(1, 3)), Some(-2000000), None) }

\* Candidates for the constraint checks: every strategy on every leg pair, at
\* sizes below, at and above the books' inventories and limits.
BookCandidates ==
  { Cand(st, s_BTC_USDT, leg[1], leg[2], gross, 4000000, 3000000, 1000000, 2000000, size) :
      st \in Strategies,
      leg \in { << s_binance, s_bybit >>, << s_bybit, s_binance >>,
                << s_long_binance_perp, s_short_bybit_perp >> },
      gross \in { 6000000, 30000000 },
      size \in { 2500, 10000, 20000 } }

BookArgs ==
  { DefaultArgs("taker_default"),
    MkArgs("maker_inventory", None, None, None, Some(0), Some(10000)) }

\* Runs of the scorer over the same files that are compared.
MaxRuns == 2

\* Venue symbols handed to one run of the cex_cex builder.
MaxSymbols == 2

\* Price levels on each side of a fetched order book.
MaxLevels == 2

\* Candidates whose venue strings name one known venue, two known venues of
\* equal length, or none.
DetCandidates ==
  { Cand("cex_cex", s_BTC_USDT, s_binance, s_bybit,
         20000000, 4000000, 3000000, 1000000, 2000000, 10000),
    Cand("cex_cex", s_BTC_USDT, s_okx_htx, s_okx,
         20000000, 4000000, 3000000, 1000000, 2000000, 10000),
    Cand("cex_cex", s_BTC_USDT, s_okx, s_htx,
         30000000, 4000000, 3000000, 1000000, 2000000, 10000) }

\* Raw venue strings: every string over VenueAlphabet up to MaxVenueLen, and
\* the tagged forms the candidate builders emit.
VenueAlphabet == { "o", "k", "x", "K", " ", "_" }
RawVenues ==
  SeqsUpTo(VenueAlphabet, MaxVenueLen)
    \cup { s_binance, s_jupiter, s_long_binance_perp, s_short_bybit_perp, s_Bybit_spot,
           s_okx_htx, s_unknown, << "l","o","n","g","_" >> \o s_perp }

\* ------------------------------------------ build_live_cex_candidates.py
s_USDT == << "U","S","D","T" >>
s_USDC == << "U","S","D","C" >>

\* str.endswith
EndsWith(s, suffix) ==
  /\ Len(s) >= Len(suffix)
  /\ SubSeq(s, Len(s) - Len(suffix) + 1, Len(s)) = suffix

\* _parse_symbol without the non-empty-base test.
_parse_symbol_any_base(symbol) ==
  IF EndsWith(symbol, s_USDT)
  THEN Some(<< SubSeq(symbol, 1, Len(symbol) - Len(s_USDT)), s_USDT >>)
  ELSE IF EndsWith(symbol, s_USDC)
  THEN Some(<< SubSeq(symbol, 1, Len(symbol) - Len(s_USDC)), s_USDC >>)
  ELSE None

\* _parse_symbol: the first of "USDT", "USDC" that ends the symbol and leaves
\* a non-empty base; Some(<< base, quote >>) or None.
_parse_symbol(symbol) ==
  IF EndsWith(symbol, s_USDT) /\ Len(symbol) > Len(s_USDT)
  THEN Some(<< SubSeq(symbol, 1, Len(symbol) - Len(s_USDT)), s_USDT >>)
  ELSE IF EndsWith(symbol, s_USDC) /\ Len(symbol) > Len(s_USDC)
  THEN Some(<< SubSeq(symbol, 1, Len(symbol) - Len(s_USDC)), s_USDC >>)
  ELSE None

\* round(n / d * 10_000, 6) in millionths, for 0 <= n < d: the quotient
\* n * 10**10 / d is taken five digits at a time.
RoundBps6(n, d) ==
  LET x1 == (n * 100000) \div d
      r1 == (n * 100000) % d
      x2 == (r1 * 100000) \div d
      r2 == (r1 * 100000) % d
  IN  x1 * 100000 + x2
        + (IF 2 * r2 > d \/ (2 * r2 = d /\ x2 % 2 = 1) THEN 1 ELSE 0)

\* The Quote normalize_quotes appends for a venue row (lines 237-256). Prices
\* are in cents, which round(x, 10) leaves as they are; the mid price is the
\* fraction (bid + ask) / 2.
Quote(run_at, venue, parsed, row) ==
  [ detected_at |-> run_at,
    venue |-> venue,
    market |-> "spot",
    symbol |-> parsed[1] \o << "/" >> \o parsed[2],
    base |-> parsed[1],
    quote |-> parsed[2],
    bid_price |-> row.bid,
    ask_price |-> row.ask,
    mid_price |-> Frac(row.bid + row.ask, 2),
    spread_bps |-> RoundBps6(2 * (row.ask - row.bid), row.bid + row.ask) ]

\* Exact rationals n/d (d > 0) in lowest terms, for the prices, quantities and
\* averages of the depth walk.
QNorm(n, d) == Frac(n \div Gcd(n, d), d \div Gcd(n, d))
QInt(k) == Frac(k, 1)
QAdd(a, b) == QNorm(a.n * b.d + b.n * a.d, a.d * b.d)
QSub(a, b) == QNorm(a.n * b.d - b.n * a.d, a.d * b.d)
QMul(a, b) == QNorm(a.n * b.n, a.d * b.d)
QDiv(a, b) == QNorm(a.n * b.d, a.d * b.n)
QLeq(a, b) == a.n * b.d <= b.n * a.d
QLess(a, b) == a.n * b.d < b.n * a.d
QMin(a, b) == IF QLeq(a, b) THEN a ELSE b
QMax(a, b) == IF QLeq(b, a) THEN a ELSE b

\* round(x, 6) in millionths for a rational x >= 0: the quotient is taken
\* one decimal digit at a time.
RECURSIVE DivDigits(_, _, _, _)
DivDigits(q, r, d, k) ==
  IF k = 0 THEN q + (IF 2 * r > d \/ (2 * r = d /\ q % 2 = 1) THEN 1 ELSE 0)
  ELSE DivDigits(10 * q + ((10 * r) \div d), (10 * r) % d, d, k - 1)
QRound6(x) == DivDigits(x.n \div x.d, x.n % x.d, x.d, 6)

Level(price, qty) == [ price |-> price, qty |-> qty ]

\* _calc_buy_slippage_bps, lines 182-191: the walk over the asks; the result
\* is << spent_quote, bought_base >>.
RECURSIVE buy_walk(_, _, _, _)
buy_take(levels, target_quote, spent_quote, bought_base, take_quote) ==
  IF QLeq(take_quote, QInt(0)) THEN << spent_quote, bought_base >>
  ELSE IF QLeq(target_quote, QAdd(spent_quote, take_quote))
  THEN << QAdd(spent_quote, take_quote), QAdd(bought_base, QDiv(take_quote, Head(levels).price)) >>
  ELSE buy_walk(Tail(levels), target_quote, QAdd(spent_quote, take_quote), QAdd(bought_base, QDiv(take_quote, Head(levels).price)))
buy_walk(levels, target_quote, spent_quote, bought_base) ==
  IF levels = << >> THEN << spent_quote, bought_base >>
  ELSE buy_take(levels, target_quote, spent_quote, bought_base, QMin(QSub(target_quote, spent_quote), QMul(Head(levels).price, Head(levels).qty)))

\* lines 193-197, on the walk's result.
buy_slippage(mid_price, target_quote, walked) ==
  IF QLess(walked[1], target_quote) \/ QLeq(walked[2], QInt(0)) THEN None
  ELSE Some(QMax(QInt(0), QMul(QSub(QDiv(QDiv(walked[1], walked[2]), mid_price), One), QInt(10000))))

RECURSIVE ReverseSeq(_)
ReverseSeq(q) == IF q = << >> THEN << >> ELSE Append(ReverseSeq(Tail(q)), Head(q))

\* _calc_buy_slippage_bps walking the asks from the far end of the ladder.
_calc_buy_slippage_bps_far_first(mid_price, levels, size_usd) ==
  buy_slippage(mid_price, size_usd, buy_walk(ReverseSeq(levels), size_usd, QInt(0), QInt(0)))

\* _calc_buy_slippage_bps: Some(bps) as an exact rational, or None.
_calc_buy_slippage_bps(mid_price, levels, size_usd) ==
  buy_slippage(mid_price, size_usd, buy_walk(levels, size_usd, QInt(0), QInt(0)))

\* _calc_sell_slippage_bps, lines 205-212: the walk over the bids; the result
\* is << sold_base, received_quote >>.
RECURSIVE sell_walk(_, _, _, _)
sell_take(levels, target_base, sold_base, received_quote, take_base) ==
  IF QLeq(take_base, QInt(0)) THEN << sold_base, received_quote >>
  ELSE IF QLeq(target_base, QAdd(sold_base, take_base))
  THEN << QAdd(sold_base, take_base), QAdd(received_quote, QMul(take_base, Head(levels).price)) >>
  ELSE sell_walk(Tail(levels), target_base, QAdd(sold_base, take_base), QAdd(received_quote, QMul(take_base, Head(levels).price)))
sell_walk(levels, target_base, sold_base, received_quote) ==
  IF levels = << >> THEN << sold_base, received_quote >>
  ELSE sell_take(levels, target_base, sold_base, received_quote, QMin(QSub(target_base, sold_base), Head(levels).qty))

\* lines 214-218, on the walk's result.
sell_slippage(mid_price, target_base, walked) ==
  IF QLess(walked[1], target_base) \/ QLeq(walked[1], QInt(0)) THEN None
  ELSE Some(QMax(QInt(0), QMul(QSub(One, QDiv(QDiv(walked[2], walked[1]), mid_price)), QInt(10000))))

\* _calc_sell_slippage_bps: Some(bps) as an exact rational, or None.
_calc_sell_slippage_bps(mid_price, levels, size_usd) ==
  sell_slippage(mid_price, QDiv(size_usd, mid_price), sell_walk(levels, QDiv(size_usd, mid_price), QInt(0), QInt(0)))

\* round(slip, 6) if slip is not None else None, in millionths of a bps.
RoundedSlip(slip) == IF slip = None THEN None ELSE Some(QRound6(slip[1]))

\* build_depth_slippage, lines 291-300: the row of one size tier.
tier_row(size, buy_slip, sell_slip) ==
  [ size_usd |-> size, buy_slippage_bps |-> RoundedSlip(buy_slip), sell_slippage_bps |-> RoundedSlip(sell_slip) ]

\* Order books as fetch_binance_orderbook / fetch_bybit_orderbook return
\* them: positive prices and quantities, asks by ascending price, bids by
\* descending price (equal prices may repeat); at most MaxLevels levels.
AskLevels == { Level(QInt(price), QInt(qty)) : price \in { 101, 103 }, qty \in { 1, 3 } }
BidLevels == { Level(QInt(price), QInt(qty)) : price \in { 99, 97 }, qty \in { 1, 3 } }
AskLadders ==
  { q \in SeqsUpTo(AskLevels, MaxLevels) :
      \A i \in 1 .. Len(q) - 1 : QLeq(q[i].price, q[i + 1].price) }
BidLadders ==
  { q \in SeqsUpTo(BidLevels, MaxLevels) :
      \A i \in 1 .. Len(q) - 1 : QLeq(q[i + 1].price, q[i].price) }

\* main, line 483: the size tiers are the sorted set of the positive sizes
\* asked for.
SortedTiers(S) ==
  CHOOSE q \in [ 1 .. Cardinality(S) -> S ] : \A i \in 1 .. Cardinality(S) - 1 : q[i] < q[i + 1]
SizeTierLists == { SortedTiers(S) : S \in SUBSET { 50, 150, 300 } \ { { } } }

\* The mid price of the normalized quote, which comes from the ticker and not
\* from the order book: below, between or above the book's prices.
MidPrices == { QInt(102), Frac(201, 2) }

\* The venue symbols of a run: with either suffix, with neither, with an
\* empty base, with a suffix inside, in lower case.
SymbolPool ==
  { s_BTC \o s_USDT, s_ETH \o s_USDC, s_USDT, s_USDC, s_USDC \o s_USDT,
    s_USDT \o s_USDC, << "B","T","C","U","S","D" >>, s_USDT \o << "X" >>,
    << "b","t","c","u","s","d","t" >>, << "T" >> \o s_USDT }

\* fetch_binance_quotes / fetch_bybit_quotes keep a row only when
\* ask > bid > 0.
QuoteRows == { [ bid |-> 9999, ask |-> 10001 ], [ bid |-> 250, ask |-> 253 ] }
QuoteTables ==
  { [ s \in S |-> row ] :
      S \in { SymbolPool, { }, { s_BTC \o s_USDT, s_USDT, s_USDT \o << "X" >> } },
      row \in QuoteRows }

\* -------------------------------------- build_live_cex_dex_candidates.py
s_SOL == << "S","O","L" >>

USDC_DECIMALS == 6

TAKER_FEE_BPS == ( s_binance :> 7500000 ) @@ ( s_bybit :> 10000000 )

DEFAULT_DEX_ROUTER_FEE_BPS == 4000000

TOKENS ==
  << [ symbol |-> s_SOL \o s_USDT, base |-> s_SOL, mint |-> "So11111111111111111111111111111111111111112", decimals |-> 9 ],
     [ symbol |-> s_BTC \o s_USDT, base |-> s_BTC, mint |-> "9n4nbM75f5Ui33ZbPYXn59EwSgE8CGsHtAeTH5YFeJ9E", decimals |-> 6 ] >>

\* The venues of fetch_cex_quotes' result, in the dict's order.
CexVenues == << s_binance, s_bybit >>

\* fetch_cex_quotes, lines 118-125: the row kept for ask > bid > 0.
CexRow(bid, ask) ==
  [ bid |-> bid, ask |-> ask, mid |-> QDiv(QAdd(bid, ask), QInt(2)),
    spread_bps |-> QMul(QDiv(QSub(ask, bid), QDiv(QAdd(bid, ask), QInt(2))), QInt(10000)) ]

\* _safe_float on an amount held as None or Some(rational): None unless > 0.
_safe_float(value) ==
  IF value = None THEN None
  ELSE IF QLeq(value[1], QInt(0)) THEN None
  ELSE value

\* _impact_bps on a priceImpactPct held as None or Some(rational).
_impact_bps(raw) ==
  IF raw = None THEN QInt(0)
  ELSE IF QLeq(raw[1], QInt(0)) THEN QInt(0)
  ELSE QMul(raw[1], QInt(10000))

\* d divides 10**10.
RECURSIVE StripFactor(_, _, _)
StripFactor(d, f, k) == IF k = 0 \/ d % f # 0 THEN d ELSE StripFactor(d \div f, f, k - 1)
DividesPow10(d) == StripFactor(StripFactor(d, 2, 10), 5, 10) = 1

\* round(x, 10) for a rational with at most ten decimals, which it leaves
\* unchanged; no other value is rounded in the model.
Round10(x) == CASE DividesPow10(x.d) -> x

\* round(x, 6) in millionths for a rational of either sign.
SignedRound6(x) == IF x.n < 0 THEN 0 - QRound6(Frac(0 - x.n, x.d)) ELSE QRound6(x)

\* x * n / d for an integer x near the machine word, as whole part q and
\* remainder r over d.
WideScale(x, n, d) ==
  [ q |-> (x \div d) * n + ((x % d) * n) \div d, r |-> ((x % d) * n) % d, d |-> d ]
WholeAndRest(x) == [ q |-> x.n \div x.d, r |-> x.n % x.d, d |-> x.d ]

\* round() of a sum of such parts, ties to even.
RECURSIVE RestSum(_)
RestSum(parts) ==
  IF parts = << >> THEN QInt(0)
  ELSE QAdd(Frac(Head(parts).r, Head(parts).d), RestSum(Tail(parts)))
RoundWith(whole, rest) ==
  whole + (rest.n \div rest.d)
    + (IF 2 * (rest.n % rest.d) > rest.d
          \/ (2 * (rest.n % rest.d) = rest.d /\ (whole + (rest.n \div rest.d)) % 2 = 1)
       THEN 1 ELSE 0)
RoundParts(parts) == RoundWith(SumSeq([ i \in DOMAIN parts |-> parts[i].q ]), RestSum(parts))

\* build_dex_quote, lines 193-216: the record, from the prices of lines
\* 185-191. Bps fields are in millionths; the flag crossed_quote is taken
\* from the raw spread before any rounding.
dex_quote_record(run_at, token, ref_mid, size_usd, response, dex_bid, dex_ask, dex_mid, raw_spread_bps, reference_deviation_bps) ==
  [ detected_at |-> run_at,
    venue |-> s_jupiter,
    market |-> "solana-spot",
    symbol |-> token.base \o << "/" >> \o s_USDC,
    base |-> token.base,
    quote |-> s_USDC,
    bid_price |-> Round10(dex_bid),
    ask_price |-> Round10(dex_ask),
    mid_price |-> Round10(dex_mid),
    spread_bps |-> QRound6(QMax(QInt(0), raw_spread_bps)),
    raw_spread_bps |-> SignedRound6(raw_spread_bps),
    crossed_quote |-> QLess(raw_spread_bps, QInt(0 - 1)),
    buy_leg_price_impact_bps |-> QRound6(_impact_bps(response.buy.priceImpactPct)),
    sell_leg_price_impact_bps |-> QRound6(_impact_bps(response.sell.priceImpactPct)),
    route_hops_buy |-> response.buy.routePlan,
    route_hops_sell |-> response.sell.routePlan,
    cex_reference_mid |-> Round10(ref_mid),
    reference_deviation_bps |-> QRound6(reference_deviation_bps),
    scan_size_usd |-> size_usd ]

QAbs(x) == IF x.n < 0 THEN Frac(0 - x.n, x.d) ELSE x

\* lines 187-191.
dex_quote_mid(run_at, token, ref_mid, size_usd, response, dex_bid, dex_ask, dex_mid) ==
  dex_quote_record(run_at, token, ref_mid, size_usd, response, dex_bid, dex_ask, dex_mid,
                   QMul(QDiv(QSub(dex_ask, dex_bid), dex_mid), QInt(10000)),
                   QMul(QDiv(QAbs(QSub(dex_mid, ref_mid)), ref_mid), QInt(10000)))

\* lines 185-187.
dex_quote_prices(run_at, token, ref_mid, size_usd, response, dex_bid, dex_ask) ==
  dex_quote_mid(run_at, token, ref_mid, size_usd, response, dex_bid, dex_ask, QDiv(QAdd(dex_bid, dex_ask), QInt(2)))

\* build_dex_quote: None or Some(record). An outAmount is held in whole
\* coins, the atomic amount divided by 10**decimals (lines 180-181), and is
\* positive once _safe_float let it through; base_amount is at least 0.0001,
\* so that of the two atomic request amounts only the USDC one can be 0.
build_dex_quote(run_at, token, ref_mid, size_usd, response) ==
  IF QLess(size_usd, Frac(1, 1000000)) THEN None
  ELSE IF _safe_float(response.sell.outAmount) = None \/ _safe_float(response.buy.outAmount) = None THEN None
  ELSE Some(dex_quote_prices(run_at, token, ref_mid, size_usd, response,
                             QDiv(response.sell.outAmount[1], QMax(Frac(1, 10000), QDiv(size_usd, ref_mid))),
                             QDiv(size_usd, response.buy.outAmount[1])))

\* main, lines 361-369: the mean of the venues' mids of a symbol, or None.
VenueMids(cex, symbol) ==
  [ i \in 1 .. Cardinality({ j \in DOMAIN CexVenues : symbol \in DOMAIN cex[CexVenues[j]] }) |->
      cex[CexVenues[CHOOSE j \in DOMAIN CexVenues :
                      /\ symbol \in DOMAIN cex[CexVenues[j]]
                      /\ Cardinality({ k \in 1 .. j : symbol \in DOMAIN cex[CexVenues[k]] }) = i]][symbol].mid ]
RECURSIVE QSumSeq(_)
QSumSeq(q) == IF q = << >> THEN QInt(0) ELSE QAdd(Head(q), QSumSeq(Tail(q)))

\* build_candidates, lines 263-284 and 289-310: the candidate of one
\* direction. The text of the notes is kept as the direction's tag.
dex_candidate(run_at, base, buy_venue, sell_venue, venue, gross, cex_spread, dex, transfer_delay_min, size_usd, dex_total_fee_bps, tag) ==
  [ detected_at |-> run_at, notes |-> tag ]
    @@ Cand("cex_dex", base \o << "/" >> \o s_USDT, buy_venue, sell_venue,
            QRound6(gross),
            dex_total_fee_bps + TAKER_FEE_BPS[venue],
            RoundParts(<< WholeAndRest(QMul(QInt(550000), cex_spread)),
                          WideScale(dex.spread_bps, 13, 20),
                          WideScale(dex.buy_leg_price_impact_bps + dex.sell_leg_price_impact_bps, 1, 4),
                          WholeAndRest(QInt(800000)) >>),
            QRound6(QAdd(Frac(12, 5), QMul(QMax(QInt(0), QSub(QInt(10), gross)), Frac(2, 25)))),
            transfer_delay_min, size_usd)

\* lines 260-310 for one venue's quote of the symbol: direction 1, then
\* direction 2.
venue_candidates(run_at, base, venue, cex_row, dex, gross_1, gross_2, transfer_delay_min, min_gross_edge_bps, size_usd, dex_total_fee_bps) ==
  (IF QLeq(min_gross_edge_bps, gross_1)
   THEN << dex_candidate(run_at, base, s_jupiter, venue, venue, gross_1, cex_row.spread_bps, dex, transfer_delay_min, size_usd, dex_total_fee_bps, "buy_dex_sell_cex") >>
   ELSE << >>)
  \o
  (IF QLeq(min_gross_edge_bps, gross_2)
   THEN << dex_candidate(run_at, base, venue, s_jupiter, venue, gross_2, cex_row.spread_bps, dex, transfer_delay_min, size_usd, dex_total_fee_bps, "buy_cex_sell_dex") >>
   ELSE << >>)

\* lines 251-310: the loop over the venues, from venue number i on.
RECURSIVE token_venues(_, _, _, _, _, _, _, _, _)
token_venues(i, run_at, token, cex, dex, transfer_delay_min, min_gross_edge_bps, size_usd, dex_total_fee_bps) ==
  IF i > Len(CexVenues) THEN << >>
  ELSE IF token.symbol \notin DOMAIN cex[CexVenues[i]]
  THEN token_venues(i + 1, run_at, token, cex, dex, transfer_delay_min, min_gross_edge_bps, size_usd, dex_total_fee_bps)
  ELSE venue_candidates(run_at, token.base, CexVenues[i], cex[CexVenues[i]][token.symbol], dex,
                        QMul(QDiv(QSub(cex[CexVenues[i]][token.symbol].bid, dex.ask_price), dex.ask_price), QInt(10000)),
                        QMul(QDiv(QSub(dex.bid_price, cex[CexVenues[i]][token.symbol].ask), cex[CexVenues[i]][token.symbol].ask), QInt(10000)),
                        transfer_delay_min, min_gross_edge_bps, size_usd, dex_total_fee_bps)
       \o token_venues(i + 1, run_at, token, cex, dex, transfer_delay_min, min_gross_edge_bps, size_usd, dex_total_fee_bps)

\* build_candidates, lines 234-310: what one token adds to the list.
token_candidates(run_at, token, cex, by_symbol, a) ==
  IF token.symbol \notin DOMAIN by_symbol THEN << >>
  ELSE IF by_symbol[token.symbol].reference_deviation_bps > a.max_ref_deviation_bps THEN << >>
  ELSE IF by_symbol[token.symbol].crossed_quote THEN << >>
  ELSE token_venues(1, run_at, token, cex, by_symbol[token.symbol], a.transfer_delay_min, a.min_gross_edge_bps, a.size_usd,
                    Max(0, a.dex_router_fee_bps) + Max(0, a.dex_network_fee_bps))

\* sorted(candidates, key=gross_edge_bps, reverse=True): stable.
RECURSIVE InsertByGross(_, _)
InsertByGross(c, sorted) ==
  IF sorted = << >> THEN << c >>
  ELSE IF Head(sorted).gross_edge_bps < c.gross_edge_bps THEN << c >> \o sorted
  ELSE << Head(sorted) >> \o InsertByGross(c, Tail(sorted))
RECURSIVE SortedByGrossDesc(_)
SortedByGrossDesc(q) ==
  IF q = << >> THEN << >>
  ELSE InsertByGross(q[Len(q)], SortedByGrossDesc(SubSeq(q, 1, Len(q) - 1)))

\* The bookTicker rows of a token's symbol on the two venues: quoted by
\* binance alone, by both, by neither.
CexScenarios ==
  { ( s_binance :> Some(CexRow(Frac(299, 100), Frac(301, 100))) ) @@ ( s_bybit :> None ),
    ( s_binance :> Some(CexRow(Frac(299, 100), Frac(301, 100))) ) @@ ( s_bybit :> Some(CexRow(Frac(309, 100), Frac(311, 100))) ),
    ( s_binance :> None ) @@ ( s_bybit :> None ) }

\* fetch_cex_quotes' result for the rows chosen per token.
CexQuotes(rows) ==
  [ venue \in Range(CexVenues) |->
      [ symbol \in { TOKENS[i].symbol : i \in { j \in DOMAIN TOKENS : rows[j][venue] # None } } |->
          rows[CHOOSE j \in DOMAIN TOKENS : TOKENS[j].symbol = symbol][venue][1] ] ]

\* Jupiter's answers to the two quote requests of a token: the amounts out
\* in whole coins, the price impact, the hops of the route; or a request
\* that fails.
JupiterLeg(outAmount) == [ outAmount |-> outAmount, priceImpactPct |-> Some(Frac(1, 10000)), routePlan |-> 1 ]
JupiterResponse(out_usdc, out_base) == [ raises |-> FALSE, sell |-> JupiterLeg(out_usdc), buy |-> JupiterLeg(out_base) ]
JupiterScenarios ==
  { JupiterResponse(Some(Frac(123, 4)), Some(Frac(48, 5))),
    JupiterResponse(Some(Frac(63, 2)), Some(Frac(75, 8))),
    JupiterResponse(Some(Frac(123, 4)), Some(QInt(10))),
    JupiterResponse(Some(Frac(117, 4)), Some(QInt(10))),
    JupiterResponse(Some(Frac(123, 4)), None),
    [ raises |-> TRUE, sell |-> JupiterLeg(None), buy |-> JupiterLeg(None) ] }

\* parse_args, lines 317-338, and load_jupiter_fee_model without a network
\* friction file: the defaults but for the size (in whole dollars), and a
\* reference guard at its default or at a value with six decimals.
DexArgs ==
  { [ size_usd |-> 30, transfer_delay_min |-> 12 * Micro, min_gross_edge_bps |-> Frac(1, 5),
      max_ref_deviation_bps |-> m, dex_router_fee_bps |-> DEFAULT_DEX_ROUTER_FEE_BPS, dex_network_fee_bps |-> 0 ] :
      m \in { 400 * Micro, 333333333 } }

\* ------------------- build_live_cex_candidates.py: build_candidates
\* a <= b for rationals whose cross products exceed the machine word: by
\* integer parts, then by the reciprocals of the fractional parts.
RECURSIVE QLeqWide(_, _)
QLeqWide(a, b) ==
  IF a.n \div a.d # b.n \div b.d THEN a.n \div a.d < b.n \div b.d
  ELSE IF a.n % a.d = 0 THEN TRUE
  ELSE IF b.n % b.d = 0 THEN FALSE
  ELSE QLeqWide(Frac(b.d, b.n % b.d), Frac(a.d, a.n % a.d))

\* a < b for rationals of either sign.
QLessSigned(a, b) ==
  IF a.n < 0 /\ b.n >= 0 THEN TRUE
  ELSE IF a.n >= 0 /\ b.n < 0 THEN FALSE
  ELSE IF a.n >= 0 THEN ~QLeqWide(b, a)
  ELSE ~QLeqWide(Frac(0 - a.n, a.d), Frac(0 - b.n, b.d))

\* str.replace(old, new): every non-overlapping occurrence, left to right.
RECURSIVE Replace(_, _, _)
Replace(s, old, new) ==
  IF Len(s) < Len(old) THEN s
  ELSE IF SubSeq(s, 1, Len(old)) = old
       THEN new \o Replace(SubSeq(s, Len(old) + 1, Len(s)), old, new)
       ELSE << Head(s) >> \o Replace(Tail(s), old, new)

\* _build_candidate, line 378: the candidate's symbol.
candidate_symbol(symbol) == Replace(symbol, s_USDT, << "/" >> \o s_USDT)

\* _resolve_depth_slippage, lines 317-337: the slippage of the tier nearest to
\* size_usd (the first of the nearest), or None; a venue's payload is held as
\* its slippage_bps_by_tier list.
_resolve_depth_slippage(depth, symbol, venue, size_usd, side) ==
  LET by_venue == Get(depth, symbol, EmptyMap)
      tiers == Get(by_venue, venue, << >>)
      dist(i) == IF tiers[i].size_usd >= size_usd THEN tiers[i].size_usd - size_usd
                 ELSE size_usd - tiers[i].size_usd
      best == CHOOSE i \in DOMAIN tiers :
                /\ \A j \in DOMAIN tiers : dist(i) <= dist(j)
                /\ \A j \in 1 .. (i - 1) : dist(j) > dist(i)
  IN  IF tiers = << >> THEN None
      ELSE IF side = "buy" THEN tiers[best].buy_slippage_bps
      ELSE tiers[best].sell_slippage_bps

\* _build_candidate, line 354: the gross edge in bps, as a rational.
gross_edge(buy_ask, sell_bid) ==
  QMul(QDiv(QSub(QInt(sell_bid), QInt(buy_ask)), QInt(buy_ask)), QInt(10000))

\* _build_candidate, lines 358-392: the dict returned for a direction that
\* clears the threshold (the notes text is left out). round(x, 6) of a value
\* that lies exactly half-way between two millionths is taken to the even one.
cex_candidate(run_at, symbol, buy_venue, sell_venue, gross, buy_spread_bps, sell_spread_bps, size_usd, transfer_delay_min, depth) ==
  LET buy_depth_slip == _resolve_depth_slippage(depth, symbol, buy_venue, size_usd, "buy")
      sell_depth_slip == _resolve_depth_slippage(depth, symbol, sell_venue, size_usd, "sell")
  IN  Cand("cex_cex", candidate_symbol(symbol), buy_venue, sell_venue,
           SignedRound6(gross),
           TAKER_FEE_BPS[buy_venue] + TAKER_FEE_BPS[sell_venue],
           IF buy_depth_slip # None /\ sell_depth_slip # None
           THEN buy_depth_slip[1] + sell_depth_slip[1] + 800000
           ELSE RoundHalfEven(11 * (buy_spread_bps + sell_spread_bps) + 24000000, 20),
           QRound6(QAdd(Frac(4, 5), QMul(QMax(QInt(0), QSub(QInt(8), gross)), Frac(1, 10)))),
           transfer_delay_min, size_usd)

\* A _build_candidate that emits every direction.
_build_candidate_any_edge(run_at, symbol, buy_venue, sell_venue, buy_ask, sell_bid, buy_spread_bps, sell_spread_bps, size_usd, transfer_delay_min, min_gross_edge_bps, depth) ==
  << cex_candidate(run_at, symbol, buy_venue, sell_venue, gross_edge(buy_ask, sell_bid),
                   buy_spread_bps, sell_spread_bps, size_usd, transfer_delay_min, depth) >>

\* _build_candidate, lines 340-392: << >> for None, else << the dict >>.
_build_candidate(run_at, symbol, buy_venue, sell_venue, buy_ask, sell_bid, buy_spread_bps, sell_spread_bps, size_usd, transfer_delay_min, min_gross_edge_bps, depth) ==
  IF QLessSigned(gross_edge(buy_ask, sell_bid), min_gross_edge_bps) THEN None
  ELSE Some(cex_candidate(run_at, symbol, buy_venue, sell_venue, gross_edge(buy_ask, sell_bid),
                          buy_spread_bps, sell_spread_bps, size_usd, transfer_delay_min, depth))

\* build_candidates, lines 404-407: by_symbol_venue[symbol][venue], the last
\* quote of that venue whose base + quote is the symbol; None when absent.
by_symbol_venue(quotes, symbol, venue) ==
  LET hits == { i \in DOMAIN quotes :
                  quotes[i].base \o quotes[i].quote = symbol /\ quotes[i].venue = venue }
  IN  IF hits = { } THEN None
      ELSE Some(quotes[CHOOSE i \in hits : \A j \in hits : j <= i])

\* build_candidates, lines 410-449: what one symbol adds to the list.
symbol_candidates(run_at, symbol, bq, yq, a, depth) ==
  IF bq = None \/ yq = None THEN << >>
  ELSE _build_candidate(run_at, symbol, s_binance, s_bybit, bq[1].ask_price, yq[1].bid_price,
                        bq[1].spread_bps, yq[1].spread_bps, a.size_usd,
                        a.transfer_delay_min, a.min_gross_edge_bps, depth)
       \o _build_candidate(run_at, symbol, s_bybit, s_binance, yq[1].ask_price, bq[1].bid_price,
                           yq[1].spread_bps, bq[1].spread_bps, a.size_usd,
                           a.transfer_delay_min, a.min_gross_edge_bps, depth)

\* build_candidates, lines 409-449: the loop over the symbols from number i on.
RECURSIVE candidates_from(_, _, _, _, _, _)
candidates_from(i, run_at, symbols_, quotes, a, depth) ==
  IF i > Len(symbols_) THEN << >>
  ELSE symbol_candidates(run_at, symbols_[i], by_symbol_venue(quotes, symbols_[i], s_binance),
                         by_symbol_venue(quotes, symbols_[i], s_bybit), a, depth)
       \o candidates_from(i + 1, run_at, symbols_, quotes, a, depth)

\* build_candidates, lines 395-451.
build_candidates(run_at, symbols_, quotes, a, depth) ==
  SortedByGrossDesc(candidates_from(1, run_at, symbols_, quotes, a, depth))

\* The venue symbols of a run of main: USDT- and USDC-quoted, and one whose
\* base is itself "USDT".
CexSymbolPool == { s_BTC \o s_USDT, s_ETH \o s_USDC, s_USDT \o s_USDC }

\* sorted(set(args.symbols)), line 480: distinct symbols in ascending order.
SymbolLists ==
  { q \in SeqsUpTo(CexSymbolPool, MaxSymbols) :
      \A i \in 1 .. Len(q) - 1 : StrLess(q[i], q[i + 1]) }

\* bookTicker rows in hundredths (ask > bid > 0): the venues' prices overlap
\* in either direction, touch, or differ by one hundredth in 30.
BinanceTables ==
  { [ s \in S |-> row ] :
      S \in { CexSymbolPool, { s_BTC \o s_USDT } },
      row \in { [ bid |-> 2999, ask |-> 3000 ], [ bid |-> 3002, ask |-> 3004 ] } }
BybitTables ==
  { [ s \in S |-> row ] :
      S \in { CexSymbolPool, { s_ETH \o s_USDC } },
      row \in { [ bid |-> 3001, ask |-> 3002 ], [ bid |-> 3000, ask |-> 3003 ],
                [ bid |-> 2990, ask |-> 2995 ] } }

\* --min-gross-edge-bps: negative, zero, the default 0.2, and 3.3333333.
CexArgs ==
  { [ size_usd |-> 10000, transfer_delay_min |-> 5 * Micro, min_gross_edge_bps |-> m ] :
      m \in { Frac(-1, 1), Frac(0, 1), Frac(1, 5), Frac(33333333, 10000000) } }

\* build_depth_slippage's result: no order book fetched, or both venues' books
\* of every symbol with two tiers, the larger of which the asks cannot fill.
DepthModels ==
  { [ s \in CexSymbolPool |-> EmptyMap ],
    [ s \in CexSymbolPool |->
        [ v \in { s_binance, s_bybit } |->
            << [ size_usd |-> 1000, buy_slippage_bps |-> Some(500000), sell_slippage_bps |-> Some(400000) ],
               [ size_usd |-> 10000, buy_slippage_bps |-> Some(2100000), sell_slippage_bps |-> Some(1900000) ],
               [ size_usd |-> 50000, buy_slippage_bps |-> None, sell_slippage_bps |-> Some(9000000) ] >> ] ] }

\* Candidates whose frictions take two values each, so that every pattern of
\* ties among fees, slippage, latency and transfer risk occurs; the book lends
\* the whole size at 3 bps per hour for one hour.
DragCandidates ==
  { Cand("cex_cex", s_BTC_USDT, s_binance, s_bybit, 20000000, fees, slippage, latency, delay, 10000) :
      fees \in { 2000000, 3000000 }, slippage \in { 2000000, 3000000 },
      latency \in { 2000000, 3000000 }, delay \in { 2000000, 3000000 } }

DragArgs ==
  { DefaultArgs("taker_default"), DefaultArgs("maker_inventory"),
    MkArgs("taker_default", None, None, Some(One), None, None) }

BookPayloadDrag ==
  [ defaults |-> EmptyMap,
    strategy_hold_hours |-> ( "cex_cex" :> One ),
    strategy_leverage_notional_multiplier |-> EmptyMap,
    rules |->
      ( << s_bybit, s_BTC >> :>
          [ available_inventory_usd |-> 0, max_borrow_usd |-> 10000,
            borrow_rate_bps_per_hour |-> 3000000 ] ) ]

\* Items of one input array of a run that is summarised.
MaxSummaryItems == 14

\* A rejected candidate, a rejected one with a larger net edge, a qualified
\* one, and a rejected one that ties with the second on net edge.
SummaryPool ==
  << Cand("cex_cex", s_BTC_USDT, s_bybit, s_binance,
          12000000, 7000000, 1000000, 1000000, 1000000, 10000),
     Cand("cex_cex", s_BTC_USDT, s_binance, s_bybit,
          14000000, 4000000, 3000000, 1000000, 2000000, 10000),
     Cand("cex_cex", s_BTC_USDT, s_binance, s_bybit,
          20000000, 4000000, 3000000, 1000000, 2000000, 10000),
     Cand("cex_cex", s_ETH_USDT, s_binance, s_bybit,
          14000000, 4000000, 3000000, 1000000, 2000000, 10000) >>

\* Input arrays of every length up to MaxSummaryItems that walk the pool
\* from some start with some stride.
SummaryData ==
  { [ i \in 1 .. n |-> SummaryPool[((start + i * stride) % Len(SummaryPool)) + 1] ] :
      n \in 0 .. MaxSummaryItems, start \in 0 .. 3, stride \in { 1, 3 } }

\* ------------------------ build_authenticated_constraints.py: the overlay
\* A constraints file: the four top-level keys the scripts read, an absent
\* key as the empty map, and the rules as the list of rows the JSON holds.
\* A row is a record of the keys it has; USD in whole dollars, rates in
\* millionths of a bps.
SetField(row, key, value) ==
  [ k \in DOMAIN row \cup { key } |-> IF k = key THEN value ELSE row[k] ]

\* The key of the final sort, line 456.
RuleKeyLess(a, b) ==
  LET av == Get(a, "venue", << >>)
      bv == Get(b, "venue", << >>)
  IN  \/ StrLess(av, bv)
      \/ av = bv /\ StrLess(Get(a, "asset", << >>), Get(b, "asset", << >>))

\* sorted() is stable: a row goes behind the rows that are not greater.
RECURSIVE InsertRule(_, _)
InsertRule(sorted_, r) ==
  IF sorted_ = << >> THEN << r >>
  ELSE IF RuleKeyLess(r, Head(sorted_)) THEN << r >> \o sorted_
  ELSE << Head(sorted_) >> \o InsertRule(Tail(sorted_), r)
RECURSIVE SortedRules(_)
SortedRules(rules) ==
  IF rules = << >> THEN << >>
  ELSE InsertRule(SortedRules(SubSeq(rules, 1, Len(rules) - 1)), rules[Len(rules)])

\* main, lines 347-400: what the authenticated calls leave in the three
\* maps. A call that raised, or was not made for want of credentials, leaves
\* its map empty.
inventory_by_venue(env) ==
  ( s_binance :>
      IF env.binance_auth /\ env.binance_inventory # None
      THEN env.binance_inventory[1] ELSE EmptyMap )
  @@ ( s_bybit :>
      IF env.bybit_auth /\ env.bybit_inventory # None
      THEN env.bybit_inventory[1] ELSE EmptyMap )

binance_assets(rules) ==
  { Upper(Strip(Get(rules[i], "asset", << >>))) :
      i \in { j \in DOMAIN rules : Lower(Strip(Get(rules[j], "venue", << >>))) = s_binance } }

\* fetch_binance_borrow_overlay, lines 240-276: one maxBorrowable call per
\* asset of a Binance rule; an asset whose call failed gets no entry.
binance_max_borrow_usd(env, rules) ==
  IF env.binance_auth
  THEN [ a \in DOMAIN env.max_borrowable \cap (binance_assets(rules) \ { << >> }) |->
           Max(0, env.max_borrowable[a]) ]
  ELSE EmptyMap

\* fetch_binance_borrow_overlay, lines 278-318: the rows of the interest
\* rate call, none when it failed or no Binance rule names an asset.
binance_borrow_rate_bps(env, rules) ==
  IF env.binance_auth /\ env.interest_rate # None /\ binance_assets(rules) \ { << >> } # { }
  THEN env.interest_rate[1] ELSE EmptyMap

\* A row capped from the values it already holds, whatever was fetched.
overlay_row_always_caps(row, inventory, max_borrow, borrow_rate) ==
  LET venue == Lower(Strip(Get(row, "venue", << >>)))
      asset == Upper(Strip(Get(row, "asset", << >>)))
      conservative_cap ==
        Max(0, Get(row, "available_inventory_usd", 0)) + Max(0, Get(row, "max_borrow_usd", 0))
      existing_cap == Max(0, Get(row, "max_position_usd", 0))
  IN  IF venue \notin { s_binance, s_bybit } \/ asset = << >> THEN row
      ELSE SetField(row, "max_position_usd",
                    IF existing_cap > 0 THEN Min(existing_cap, conservative_cap)
                    ELSE conservative_cap)

\* main, lines 408-452: one iteration of the loop over the rules.
overlay_row(row, inventory, max_borrow, borrow_rate) ==
  LET venue == Lower(Strip(Get(row, "venue", << >>)))
      asset == Upper(Strip(Get(row, "asset", << >>)))
      venue_inventory == inventory[venue]
      has_inventory == DOMAIN venue_inventory # { }
      has_borrow == venue = s_binance /\ asset \in DOMAIN max_borrow
      has_rate == venue = s_binance /\ asset \in DOMAIN borrow_rate
      r1 == IF has_inventory
            THEN SetField(row, "available_inventory_usd", Max(0, Get(venue_inventory, asset, 0)))
            ELSE row
      r2 == IF has_borrow THEN SetField(r1, "max_borrow_usd", Max(0, max_borrow[asset])) ELSE r1
      r3 == IF has_rate
            THEN SetField(r2, "borrow_rate_bps_per_hour", Max(0, borrow_rate[asset]))
            ELSE r2
      row_updated == has_inventory \/ has_borrow \/ has_rate
      existing_cap == Max(0, Get(r3, "max_position_usd", 0))
      inv_usd_for_cap == Max(0, Get(r3, "available_inventory_usd", 0))
      max_borrow_usd == Max(0, Get(r3, "max_borrow_usd", 0))
      conservative_cap == inv_usd_for_cap + max_borrow_usd
      new_cap == IF existing_cap > 0 THEN Min(existing_cap, conservative_cap)
                 ELSE conservative_cap
  IN  IF venue \notin { s_binance, s_bybit } \/ asset = << >> THEN row
      ELSE IF ~row_updated THEN row
      ELSE SetField(r3, "max_position_usd", Max(0, new_cap))

\* main, lines 325-462, on the file's payload: the rows overlaid in place,
\* then the version stamped and the rules sorted.
authenticated_overlay(file, env) ==
  LET inventory == inventory_by_venue(env)
      max_borrow == binance_max_borrow_usd(env, file.rules)
      borrow_rate == binance_borrow_rate_bps(env, file.rules)
  IN  [ file EXCEPT
          !.version = "execution_constraints_v1",
          !.rules = SortedRules([ i \in DOMAIN file.rules |->
                                    overlay_row(file.rules[i], inventory, max_borrow, borrow_rate) ]) ]

\* A constraints file that is missing or holds {}.
EmptyConstraintsFile ==
  [ version |-> "", defaults |-> EmptyMap, strategy_hold_hours |-> EmptyMap,
    strategy_leverage_notional_multiplier |-> EmptyMap, rules |-> << >> ]

Rule(venue, asset, limits) == [ venue |-> venue, asset |-> asset ] @@ limits

\* Files the overlay is run on: rows out of order, a venue in mixed case, a
\* venue the overlay does not know, a cap of 0 and a row without a cap.
OverlayFileA ==
  [ EmptyConstraintsFile EXCEPT
      !.version = "execution_constraints_v1",
      !.defaults = [ max_position_usd |-> 15000 ],
      !.rules =
        << Rule(s_bybit, s_BTC,
                [ max_position_usd |-> 50, available_inventory_usd |-> 10,
                  max_borrow_usd |-> 0, borrow_rate_bps_per_hour |-> 650000 ]),
           Rule(s_binance, s_BTC,
                [ max_position_usd |-> 50, available_inventory_usd |-> 20,
                  max_borrow_usd |-> 30, borrow_rate_bps_per_hour |-> 650000 ]),
           Rule(s_okx, s_BTC, [ max_position_usd |-> 70 ]) >> ]
OverlayFileB ==
  [ EmptyConstraintsFile EXCEPT
      !.defaults = [ max_position_usd |-> 15000, max_leverage |-> 3000000 ],
      !.strategy_leverage_notional_multiplier = ( "cex_cex" :> Frac(3, 2) ),
      !.rules =
        << Rule(s_binance, s_ETH,
                [ max_position_usd |-> 0, available_inventory_usd |-> 0,
                  max_borrow_usd |-> 0 ]),
           Rule(<< "B","i","n","a","n","c","e" >>, << "b","t","c" >>,
                [ available_inventory_usd |-> 25, max_borrow_usd |-> 5 ]) >> ]
OverlayFiles == { EmptyConstraintsFile, OverlayFileA, OverlayFileB }

\* The environment of one overlay run: which credentials are set, and what
\* each authenticated call gave (None for a call that raised; a venue
\* without credentials is not called).
NoBinanceAnswers ==
  [ binance_inventory |-> None, max_borrowable |-> EmptyMap, interest_rate |-> None ]
BinanceAnswers ==
  { [ binance_inventory |-> inv, max_borrowable |-> mb, interest_rate |-> ir ] :
      inv \in { None, Some(EmptyMap), Some(s_BTC :> 100), Some(s_ETH :> 500) },
      mb \in { EmptyMap, s_BTC :> 0 },
      ir \in { None, Some(s_BTC :> 700000) } }
BybitAnswers == { None, Some(s_BTC :> 3000) }
BinanceSides ==
  { [ binance_auth |-> FALSE ] @@ NoBinanceAnswers }
  \cup { [ binance_auth |-> TRUE ] @@ b : b \in BinanceAnswers }
BybitSides ==
  { [ bybit_auth |-> FALSE, bybit_inventory |-> None ] }
  \cup { [ bybit_auth |-> TRUE, bybit_inventory |-> yi ] : yi \in BybitAnswers }
OverlayEnvs == { b @@ y : b \in BinanceSides, y \in BybitSides }

\* How many times a script is run on the constraints file.
MaxFileRuns == 2

\* ------------------- build_execution_constraints_template.py: the refresh
\* The rows of a rules list by (venue, asset), lines 116-123 (and the
\* scorer's ConstraintBook.__init__, lines 185-195): a row without a venue
\* or an asset is dropped, the last row of a key wins.
RuleKey(row) ==
  << Lower(Strip(Get(row, "venue", << >>))), Upper(Strip(Get(row, "asset", << >>))) >>
rules_by_key(rules) ==
  LET keyed == { i \in DOMAIN rules : RuleKey(rules[i])[1] # << >> /\ RuleKey(rules[i])[2] # << >> }
  IN  [ key \in { RuleKey(rules[i]) : i \in keyed } |->
          rules[CHOOSE i \in keyed :
                  /\ RuleKey(rules[i]) = key
                  /\ \A j \in keyed : RuleKey(rules[j]) = key => j <= i] ]

\* The template script's canonical_venue, lines 46-56: the first token that
\* is no stopword; it knows no venues.
template_canonical_venue(raw_venue) == canonical_venue(raw_venue, << >>)

\* main, lines 125-141: the sizes seen for each (venue, asset).
sizes_by_key(candidates_) ==
  LET sized == { i \in DOMAIN candidates_ : candidates_[i].size_usd > 0 }
      key_of(i, venue) ==
        << template_canonical_venue(venue), asset_from_symbol(candidates_[i].symbol) >>
      keys == { key_of(i, candidates_[i].buy_venue) : i \in sized }
                \cup { key_of(i, candidates_[i].sell_venue) : i \in sized }
  IN  [ key \in keys |->
          { candidates_[i].size_usd :
              i \in { j \in sized : key \in { key_of(j, candidates_[j].buy_venue),
                                              key_of(j, candidates_[j].sell_venue) } } } ]

CORE_ASSETS == { s_BTC, s_ETH, s_SOL }

\* suggest_limits, lines 77-96, for sizes that are multiples of 100 dollars
\* (the products are then whole dollars and round(_, 2) leaves them).
suggest_limits(max_size_usd, asset) ==
  LET baseline == Max(1000, max_size_usd)
  IN  [ max_position_usd |-> (baseline * 14) \div 10,
        available_inventory_usd |-> (baseline * 35) \div 100,
        max_borrow_usd |-> (baseline * 75) \div 100,
        borrow_rate_bps_per_hour |-> IF asset \in CORE_ASSETS THEN 650000 ELSE 1150000 ]

\* sorted() of a set of (venue, asset) tuples.
KeyTupleLess(a, b) == StrLess(a[1], b[1]) \/ (a[1] = b[1] /\ StrLess(a[2], b[2]))
RECURSIVE SortedKeys(_)
SortedKeys(keys) ==
  IF keys = { } THEN << >>
  ELSE LET least == CHOOSE k \in keys : \A o \in keys \ { k } : KeyTupleLess(k, o)
       IN  << least >> \o SortedKeys(keys \ { least })
SetMax(S) == CHOOSE x \in S : \A y \in S : y <= x

\* main, lines 106-190, on the payload of the output file and the candidate
\* list: the rules of the candidate universe (an existing row as it is, a
\* suggestion otherwise), then the other existing rows; defaults of four
\* keys; the hold hours. No other key is written.
refresh_template(existing, candidates_) ==
  LET existing_rules == rules_by_key(existing.rules)
      sizes == sizes_by_key(candidates_)
      universe == SortedKeys(DOMAIN sizes)
      legacy == SortedKeys(DOMAIN existing_rules \ DOMAIN sizes)
      defaults == existing.defaults
  IN  [ version |-> "execution_constraints_v1",
        defaults |->
          [ max_position_usd |-> Get(defaults, "max_position_usd", 12000),
            available_inventory_usd |-> Get(defaults, "available_inventory_usd", 0),
            max_borrow_usd |-> Get(defaults, "max_borrow_usd", 0),
            borrow_rate_bps_per_hour |-> Get(defaults, "borrow_rate_bps_per_hour", 1000000) ],
        strategy_hold_hours |->
          Overlay(DEFAULT_STRATEGY_HOLD_HOURS, existing.strategy_hold_hours),
        strategy_leverage_notional_multiplier |-> EmptyMap,
        rules |->
          [ i \in DOMAIN universe |->
              IF universe[i] \in DOMAIN existing_rules THEN existing_rules[universe[i]]
              ELSE Rule(universe[i][1], universe[i][2],
                        suggest_limits(SetMax(sizes[universe[i]]), universe[i][2])) ]
          \o [ i \in DOMAIN legacy |-> existing_rules[legacy[i]] ] ]

\* ConstraintBook.from_path on the constraints file: {} (or no file) gives a
\* disabled book; known_venues is iterated in the order `sorted` gives.
ConstraintBookOf(file) ==
  LET by_key == rules_by_key(file.rules)
      venues == SortedKeys({ << key[1], << >> >> : key \in DOMAIN by_key })
      book == ConstraintBook_init(
                [ defaults |-> file.defaults,
                  strategy_hold_hours |-> file.strategy_hold_hours,
                  strategy_leverage_notional_multiplier |->
                    file.strategy_leverage_notional_multiplier,
                  rules |-> by_key ],
                [ i \in DOMAIN venues |-> venues[i][1] ])
  IN  [ book EXCEPT !.enabled = file # EmptyConstraintsFile ]

\* Files the refresh finds, and the candidate lists it reads.
TemplateFileC ==
  [ EmptyConstraintsFile EXCEPT
      !.version = "execution_constraints_v1",
      !.defaults = [ max_position_usd |-> 15000, available_inventory_usd |-> 0,
                     max_borrow_usd |-> 0, borrow_rate_bps_per_hour |-> 1000000,
                     max_leverage |-> 1000000 ],
      !.strategy_hold_hours = ( "cex_cex" :> Frac(1, 2) ),
      !.strategy_leverage_notional_multiplier = ( "cex_cex" :> Frac(3, 2) ),
      !.rules =
        << Rule(s_binance, s_BTC,
                [ max_position_usd |-> 25000, available_inventory_usd |-> 20000,
                  max_borrow_usd |-> 5000, borrow_rate_bps_per_hour |-> 800000 ]),
           Rule(s_bybit, s_BTC,
                [ max_position_usd |-> 25000, available_inventory_usd |-> 20000,
                  max_borrow_usd |-> 5000, borrow_rate_bps_per_hour |-> 800000 ]),
           Rule(s_okx, s_SOL, [ max_position_usd |-> 7000 ]) >> ]
TemplateFiles == { EmptyConstraintsFile, OverlayFileA, OverlayFileB, TemplateFileC }
TemplateCandidates ==
  { Cand("cex_cex", s_BTC_USDT, s_binance, s_bybit, 30000000, 4000000, 3000000, 1000000, 2000000, 10000),
    Cand("cex_cex", s_ETH_USDT, s_bybit, s_binance, 30000000, 4000000, 3000000, 1000000, 2000000, 2000),
    Cand("perp_spot_basis", s_BTC_USDT, s_long_binance_perp, s_Bybit_spot, 30000000, 4000000, 3000000, 1000000, 2000000, 500),
    Cand("cex_dex", s_BTC_USDT, s_jupiter, s_binance, 30000000, 4000000, 3000000, 1000000, 2000000, 0) }
MaxTemplateInput == 2
TemplateInputs == SeqsUpTo(TemplateCandidates, MaxTemplateInput)

\* ------------------------------------------- build_for_web.py: the pipeline
\* run, lines 13-17: a step that exits nonzero ends main with SystemExit
\* unless it is allowed to fail.
\* A run that lets no step fail.
run_step_strict(returncode, allow_fail) == IF returncode # 0 THEN "raise" ELSE "return"

run_step(returncode, allow_fail) ==
  IF returncode # 0 /\ ~allow_fail THEN "raise" ELSE "return"

\* main, lines 21-135: the scripts in the order main starts them.
Step(name, allow_fail) == [ name |-> name, allow_fail |-> allow_fail ]
PIPELINE ==
  << Step("cex", TRUE), Step("friction", TRUE), Step("cex_dex", TRUE),
     Step("funding", TRUE), Step("basis", TRUE), Step("merge", FALSE),
     Step("template", FALSE), Step("overlay", TRUE), Step("fee_template", FALSE),
     Step("fee_overlay", TRUE), Step("scan", FALSE), Step("site", FALSE) >>

\* The candidate builders, in the order merge_candidate_files.py is given
\* their files, and the strategy each one writes.
CandidateBuilders == << "cex", "cex_dex", "funding", "basis" >>
StrategyOf ==
  [ cex |-> "cex_cex", cex_dex |-> "cex_dex", funding |-> "funding_carry_cex_cex",
    basis |-> "perp_spot_basis" ]
GrossOf == [ cex |-> 12000000, cex_dex |-> 30000000, funding |-> 12000000, basis |-> 5000000 ]

\* A candidate as the pipeline sees it: its strategy, the merge's sort key,
\* and where it comes from: a builder of the running pipeline run, a
\* builder of an earlier run, or the sample file.
PipelineCandidate(builder) ==
  [ strategy_type |-> StrategyOf[builder], origin |-> "this_run",
    gross_edge_bps |-> GrossOf[builder] ]
SampleCandidates ==
  << [ strategy_type |-> "cex_cex", origin |-> "sample", gross_edge_bps |-> 20000000 ] >>

\* What the last run left, seen from the next run.
EarlierRun(items) ==
  [ i \in DOMAIN items |->
      IF items[i].origin = "this_run" THEN [ items[i] EXCEPT !.origin = "earlier_run" ]
      ELSE items[i] ]
EarlierRunFile(file) == IF file = None THEN None ELSE Some(EarlierRun(file[1]))

\* What a builder's process can do: exit nonzero before it writes (every
\* fetch precedes every write), or write the candidates it found and exit 0.
BuilderOutcomes(builder) ==
  { [ returncode |-> 1, candidates |-> None ],
    [ returncode |-> 0, candidates |-> Some(<< PipelineCandidate(builder) >>) ] }

\* merge_candidate_files.py, main, lines 18-32: the existing files, in the
\* order given, sorted by gross edge.
RECURSIVE merge_inputs(_, _)
merge_inputs(files, inputs) ==
  IF inputs = << >> THEN << >>
  ELSE (IF files[Head(inputs)] = None THEN << >> ELSE files[Head(inputs)][1])
         \o merge_inputs(files, Tail(inputs))
merge_candidate_files(files, inputs) == SortedByGrossDesc(merge_inputs(files, inputs))

\* build_for_web.py, main, lines 41-55: an empty merge is replaced by the
\* sample file.
sample_fallback(payload) == IF Len(payload) = 0 THEN SampleCandidates ELSE payload

\* ------------------------------------------------------------------- state
VARIABLES
  args,            \* the parsed command line of scan_opportunities.py
  data,            \* the items of the parsed input, as `for item in data` yields them
  fee_payload,     \* the fee table file (NoPayload when absent)
  book_payload,    \* the constraints file (NoBook when absent)
  fee_table,       \* the FeeTable object of the running process
  constraint_book, \* the ConstraintBook object of the running process
  scored,          \* the ScoredOpportunity list, in input order
  shortlist,       \* what --output-json holds
  pc,              \* "read", "score" while the list is built, then "done"; "failed" after an uncaught exception
  run,             \* how many times the scorer has been started on these files
  prev_shortlist,  \* what --output-json held after the previous run
  input_file,      \* what --input names
  written,         \* which of the three output files the run has written
  summary,         \* what --output-summary holds (None before the first run ends)
  raw_venue,       \* a venue string handed to canonical_venue
  canon_cls,       \* whose canonical_venue: "FeeTable" or "ConstraintBook"
  canon_hist,      \* canonical_venue applied once, twice, ... to raw_venue
  symbols,         \* normalize_quotes: the venue symbols asked for
  binance,         \* normalize_quotes: fetch_binance_quotes' rows by symbol
  bybit,           \* normalize_quotes: fetch_bybit_quotes' rows by symbol
  normalized,      \* normalize_quotes: the Quote list built so far
  norm_pos,        \* normalize_quotes: iterations of the nested loop done
  mid,             \* build_depth_slippage: the venue's mid price of the symbol
  bids,            \* build_depth_slippage: the fetched bids, best first
  asks,            \* build_depth_slippage: the fetched asks, best first
  size_tiers_usd,  \* build_depth_slippage: the sizes asked for
  tier_rows,       \* build_depth_slippage: the rows of the tiers done
  dex_args,        \* cex_dex builder: the parsed command line and fee model
  cex_quotes,      \* cex_dex builder: fetch_cex_quotes' result
  jupiter,         \* cex_dex builder: Jupiter's answers, by token symbol
  dex_quotes,      \* cex_dex builder: the DEX quotes built so far
  dex_quotes_by_symbol, \* cex_dex builder: the same, by token symbol
  candidates,      \* cex_dex builder: the candidate list of build_candidates
  token_pos,       \* cex_dex builder: tokens done in the running loop
  dex_pc,          \* cex_dex builder: "quotes", "candidates", "write", "done"
  dex_quotes_out,  \* cex_dex builder: what --dex-quotes-out holds
  candidates_out,  \* cex_dex builder: what --candidates-out holds
  cex_args,        \* cex_cex builder: the parsed command line
  depth_slippage,  \* cex_cex builder: build_depth_slippage's result
  cex_candidates,  \* cex_cex builder: build_candidates' result
  cex_pc,          \* cex_cex builder: "candidates" until they are built, then "done"
  constraints_file, \* data/execution_constraints.latest.json
  file_at_start,   \* what the constraints file held before the first run on it
  file_before,     \* what it held before the last run on it
  overlay_env,     \* credentials and answers of the last overlay run
  template_input,  \* the candidate list the template refresh reads
  cfile_op,        \* the last script run on the file: "none", "overlay", "template"
  cfile_runs,      \* how many runs the file has seen
  pipe_state,      \* build_for_web: "idle", "running", "done", "aborted"
  pipe_pos,        \* build_for_web: the step of PIPELINE that runs next (or raised)
  failed_steps,    \* build_for_web: the steps of this run that exited nonzero
  candidate_files, \* data/opportunity_candidates.*.live.json, by builder
  combined_file,   \* data/opportunity_candidates.combined.live.json
  shortlist_written, \* opportunities/shortlist-latest.json: "never" written, in an "earlier_run", in "this_run"
  site_built       \* site/: "never" built, built in an "earlier_run" or in "this_run"

vars ==
  << args, data, fee_payload, book_payload, fee_table, constraint_book, scored,
     shortlist, pc, run, prev_shortlist, input_file, written, summary,
     raw_venue, canon_cls, canon_hist,
     symbols, binance, bybit, normalized, norm_pos,
     mid, bids, asks, size_tiers_usd, tier_rows,
     dex_args, cex_quotes, jupiter, dex_quotes, dex_quotes_by_symbol, candidates,
     token_pos, dex_pc, dex_quotes_out, candidates_out,
     cex_args, depth_slippage, cex_candidates, cex_pc,
     constraints_file, file_at_start, file_before, overlay_env, template_input,
     cfile_op, cfile_runs,
     pipe_state, pipe_pos, failed_steps, candidate_files, combined_file,
     shortlist_written, site_built >>

scan_vars ==
  << args, data, fee_payload, book_payload, fee_table, constraint_book, scored,
     shortlist, pc, run, prev_shortlist, input_file, written, summary >>
canon_vars == << raw_venue, canon_cls, canon_hist >>
quote_vars == << symbols, binance, bybit, normalized, norm_pos >>
depth_vars == << mid, bids, asks, size_tiers_usd, tier_rows >>
dex_vars ==
  << dex_args, cex_quotes, jupiter, dex_quotes, dex_quotes_by_symbol, candidates,
     token_pos, dex_pc, dex_quotes_out, candidates_out >>
builder_vars == << quote_vars, depth_vars, dex_vars >>
cexc_vars == << cex_args, depth_slippage, cex_candidates, cex_pc >>
cfile_vars ==
  << constraints_file, file_at_start, file_before, overlay_env, template_input,
     cfile_op, cfile_runs >>
pipe_vars ==
  << pipe_state, pipe_pos, failed_steps, candidate_files, combined_file,
     shortlist_written, site_built >>
ops_vars == << cexc_vars, cfile_vars, pipe_vars >>

\* FeeTable.from_path / ConstraintBook.from_path in a fresh process: the
\* iteration order of each known_venues set is the process's own.
InitScan(ArgSet, DataSet, FeePayloads, BookPayloads) ==
  /\ args \in ArgSet
  /\ data \in DataSet
  /\ fee_payload \in FeePayloads
  /\ book_payload \in BookPayloads
  /\ \E it \in Perms(VenuesOf(fee_payload.rules)) :
       fee_table = FeeTable_init(fee_payload, it)
  /\ \E it \in Perms(VenuesOf(book_payload.rules)) :
       constraint_book = ConstraintBook_init(book_payload, it)
  /\ scored = << >>
  /\ shortlist = << >>
  /\ pc = "score"
  /\ run = 1
  /\ prev_shortlist = << >>
  /\ input_file = JsonArray(data)
  /\ written = { }
  /\ summary = None

CanonIdle ==
  /\ raw_venue = << >>
  /\ canon_cls = "FeeTable"
  /\ canon_hist = << >>

\* No scorer run: the state main has before it is started on any input.
ScanIdle ==
  /\ args = DefaultArgs("taker_default")
  /\ data = << >>
  /\ fee_payload = NoPayload
  /\ book_payload = NoBook
  /\ fee_table = FeeTable_init(NoPayload, << >>)
  /\ constraint_book = ConstraintBook_init(NoBook, << >>)
  /\ scored = << >>
  /\ shortlist = << >>
  /\ pc = "done"
  /\ run = 1
  /\ prev_shortlist = << >>
  /\ input_file = JsonArray(<< >>)
  /\ written = { }
  /\ summary = None

QuoteIdle ==
  /\ symbols = << >>
  /\ binance = << >>
  /\ bybit = << >>
  /\ normalized = << >>
  /\ norm_pos = 0

DepthIdle ==
  /\ mid = One
  /\ bids = << >>
  /\ asks = << >>
  /\ size_tiers_usd = << >>
  /\ tier_rows = << >>

DexIdle ==
  /\ dex_args = << >>
  /\ cex_quotes = << >>
  /\ jupiter = << >>
  /\ dex_quotes = << >>
  /\ dex_quotes_by_symbol = << >>
  /\ candidates = << >>
  /\ token_pos = 0
  /\ dex_pc = "done"
  /\ dex_quotes_out = << >>
  /\ candidates_out = << >>

BuilderIdle == QuoteIdle /\ DepthIdle /\ DexIdle

CexcIdle ==
  /\ cex_args = << >>
  /\ depth_slippage = << >>
  /\ cex_candidates = << >>
  /\ cex_pc = "done"

CfileIdle ==
  /\ constraints_file = EmptyConstraintsFile
  /\ file_at_start = EmptyConstraintsFile
  /\ file_before = EmptyConstraintsFile
  /\ overlay_env = << >>
  /\ template_input = << >>
  /\ cfile_op = "none"
  /\ cfile_runs = 0

NoCandidateFiles == [ b \in Range(CandidateBuilders) |-> None ]
PipeIdle ==
  /\ pipe_state = "idle"
  /\ pipe_pos = 1
  /\ failed_steps = { }
  /\ candidate_files = NoCandidateFiles
  /\ combined_file = None
  /\ shortlist_written = "never"
  /\ site_built = "never"

OpsIdle == CexcIdle /\ CfileIdle /\ PipeIdle

\* main, lines 976-991: one iteration of the list comprehension.
ScoreNext ==
  /\ pc = "score"
  /\ Len(scored) < Len(data)
  /\ WellFormed(data[Len(scored) + 1])
  /\ LET p == Params(args, fee_table)
         item == data[Len(scored) + 1]
     IN  scored' = Append(scored,
           score_item(item, args.execution_profile, p.fee_multiplier,
                      p.slippage_multiplier, p.latency_multiplier,
                      p.transfer_delay_multiplier, p.transfer_penalty_bps_per_min,
                      p.min_net_edge_bps, p.max_risk_score, constraint_book, fee_table))
  /\ UNCHANGED << args, data, fee_payload, book_payload, fee_table, constraint_book,
                  shortlist, pc, run, prev_shortlist, input_file, written, summary >>
  /\ UNCHANGED canon_vars
  /\ UNCHANGED builder_vars
  /\ UNCHANGED ops_vars

\* main, lines 993-1030: sort and write the three outputs.
Finish ==
  /\ pc = "score"
  /\ Len(scored) = Len(data)
  /\ shortlist' = [ i \in DOMAIN scored |-> Emitted(SortedByKeyDesc(scored)[i]) ]
  /\ written' = { "output_json", "output_md", "output_summary" }
  /\ summary' = Some(_build_summary(SortedByKeyDesc(scored), args.execution_profile))
  /\ pc' = "done"
  /\ UNCHANGED << args, data, fee_payload, book_payload, fee_table, constraint_book,
                  scored, run, prev_shortlist, input_file >>
  /\ UNCHANGED canon_vars
  /\ UNCHANGED builder_vars
  /\ UNCHANGED ops_vars

Init ==
  /\ InitScan(RunArgs, SeqsUpTo(RunCandidates, MaxItems),
              { NoPayload, FeePayloadCex }, { NoBook, BookPayloadA })
  /\ CanonIdle
  /\ BuilderIdle
  /\ OpsIdle

Next == ScoreNext \/ Finish

Spec == Init /\ [][Next]_vars

\* One candidate drawn field by field.
InitItem ==
  /\ InitScan(ItemArgs, { << c >> : c \in ItemCandidates },
              { NoPayload, FeePayloadCex }, { NoBook, BookPayloadA, BookPayloadB })
  /\ CanonIdle
  /\ BuilderIdle
  /\ OpsIdle

SpecItem == InitItem /\ [][Next]_vars

\* One candidate against each constraint book.
InitBook ==
  /\ InitScan(BookArgs, { << c >> : c \in BookCandidates }, { NoPayload },
              { NoBook, BookPayloadA, BookPayloadB, BookPayloadC })
  /\ CanonIdle
  /\ BuilderIdle
  /\ OpsIdle

SpecBook == InitBook /\ [][Next]_vars

\* One candidate whose frictions tie.
InitDrag ==
  /\ InitScan(DragArgs, { << c >> : c \in DragCandidates }, { NoPayload },
              { NoBook, BookPayloadDrag })
  /\ CanonIdle
  /\ BuilderIdle
  /\ OpsIdle

SpecDrag == InitDrag /\ [][Next]_vars

\* Input arrays long enough for the summary's top-10 cut.
InitSummary ==
  /\ InitScan({ DefaultArgs("taker_default") }, SummaryData, { NoPayload },
              { NoBook, BookPayloadA })
  /\ CanonIdle
  /\ BuilderIdle
  /\ OpsIdle

SpecSummary == InitSummary /\ [][Next]_vars

\* main, lines 491-499: build_candidates on the quotes normalize_quotes
\* returned.
BuildCexCandidates ==
  /\ cex_pc = "candidates"
  /\ norm_pos = 2 * Len(symbols)
  /\ cex_candidates' = build_candidates(RunAt, symbols, normalized, cex_args, depth_slippage)
  /\ cex_pc' = "done"
  /\ UNCHANGED << cex_args, depth_slippage >>
  /\ UNCHANGED << scan_vars, canon_vars, builder_vars, cfile_vars, pipe_vars >>

\* The scorer is started again on the same files, in a new process.
NextRun ==
  /\ pc = "done"
  /\ run < MaxRuns
  /\ run' = run + 1
  /\ prev_shortlist' = shortlist
  /\ scored' = << >>
  /\ pc' = "score"
  /\ \E it \in Perms(VenuesOf(fee_payload.rules)) :
       fee_table' = FeeTable_init(fee_payload, it)
  /\ \E it \in Perms(VenuesOf(book_payload.rules)) :
       constraint_book' = ConstraintBook_init(book_payload, it)
  /\ UNCHANGED << args, data, fee_payload, book_payload, shortlist, input_file, written, summary >>
  /\ UNCHANGED canon_vars
  /\ UNCHANGED builder_vars
  /\ UNCHANGED ops_vars

InitDet ==
  /\ InitScan({ DefaultArgs("taker_default"), DefaultArgs("maker_inventory") },
              SeqsUpTo(DetCandidates, MaxItems) \ { << >> },
              { NoPayload, FeePayloadCex, FeePayloadTies }, { NoBook, BookPayloadTies })
  /\ CanonIdle
  /\ BuilderIdle
  /\ OpsIdle

NextDet == ScoreNext \/ Finish \/ NextRun

SpecDet == InitDet /\ [][NextDet]_vars

\* canonical_venue applied to its own result.
Canonicalize ==
  /\ Len(canon_hist) < 2
  /\ LET v == IF canon_hist = << >> THEN raw_venue ELSE canon_hist[Len(canon_hist)]
     IN  canon_hist' =
           Append(canon_hist,
                  IF canon_cls = "FeeTable"
                  THEN canonical_venue(v, fee_table.known_venues)
                  ELSE ConstraintBook_canonical_venue(v, constraint_book.known_venues))
  /\ UNCHANGED << raw_venue, canon_cls >>
  /\ UNCHANGED scan_vars
  /\ UNCHANGED builder_vars
  /\ UNCHANGED ops_vars

InitCanon ==
  /\ canon_cls \in { "FeeTable", "ConstraintBook" }
  /\ raw_venue \in RawVenues
  /\ canon_hist = << >>
  /\ args = DefaultArgs("taker_default")
  /\ data = << >>
  /\ fee_payload \in IF canon_cls = "FeeTable"
                     THEN { NoPayload, FeePayloadCex, FeePayloadTies, FeePayloadNow }
                     ELSE { NoPayload }
  /\ book_payload \in IF canon_cls = "ConstraintBook"
                      THEN { NoBook, BookPayloadA, BookPayloadTies, BookPayloadNow }
                      ELSE { NoBook }
  /\ \E it \in Perms(VenuesOf(fee_payload.rules)) :
       fee_table = FeeTable_init(fee_payload, it)
  /\ \E it \in Perms(VenuesOf(book_payload.rules)) :
       constraint_book = ConstraintBook_init(book_payload, it)
  /\ scored = << >>
  /\ shortlist = << >>
  /\ pc = "done"
  /\ run = 1
  /\ prev_shortlist = << >>
  /\ input_file = JsonArray(<< >>)
  /\ written = { }
  /\ summary = None
  /\ BuilderIdle
  /\ OpsIdle

NextCanon == Canonicalize

SpecCanon == InitCanon /\ [][NextCanon]_vars

\* normalize_quotes, lines 229-256: one iteration of the nested loop, venue
\* by venue and symbol by symbol within a venue.
NormalizeNext ==
  /\ norm_pos < 2 * Len(symbols)
  /\ LET venue == IF norm_pos < Len(symbols) THEN s_binance ELSE s_bybit
         source == IF norm_pos < Len(symbols) THEN binance ELSE bybit
         symbol == symbols[(norm_pos % Len(symbols)) + 1]
     IN  normalized' =
           IF symbol \notin DOMAIN source THEN normalized
           ELSE IF _parse_symbol(symbol) = None THEN normalized
           ELSE Append(normalized, Quote(RunAt, venue, _parse_symbol(symbol)[1], source[symbol]))
  /\ norm_pos' = norm_pos + 1
  /\ UNCHANGED << symbols, binance, bybit >>
  /\ UNCHANGED scan_vars
  /\ UNCHANGED canon_vars
  /\ UNCHANGED depth_vars
  /\ UNCHANGED dex_vars
  /\ UNCHANGED ops_vars

InitQuotes ==
  /\ symbols \in SeqsUpTo(SymbolPool, MaxSymbols)
  /\ binance \in QuoteTables
  /\ bybit \in QuoteTables
  /\ normalized = << >>
  /\ norm_pos = 0
  /\ ScanIdle
  /\ CanonIdle
  /\ DepthIdle
  /\ DexIdle
  /\ OpsIdle

NextQuotes == NormalizeNext

SpecQuotes == InitQuotes /\ [][NextQuotes]_vars

\* main, lines 473-499, of the cex_cex builder: the fetched tables, the
\* symbols, the depth model and the options of one run.
InitCex ==
  /\ symbols \in SymbolLists
  /\ binance \in BinanceTables
  /\ bybit \in BybitTables
  /\ normalized = << >>
  /\ norm_pos = 0
  /\ cex_args \in CexArgs
  /\ depth_slippage \in DepthModels
  /\ cex_candidates = << >>
  /\ cex_pc = "candidates"
  /\ ScanIdle
  /\ CanonIdle
  /\ DepthIdle
  /\ DexIdle
  /\ CfileIdle
  /\ PipeIdle

NextCex == NormalizeNext \/ BuildCexCandidates

SpecCex == InitCex /\ [][NextCex]_vars

\* build_authenticated_constraints.py, main: one run of the overlay on the
\* constraints file, in the environment the run finds.
RunAuthenticatedOverlay ==
  /\ cfile_runs < MaxFileRuns
  /\ \E env \in OverlayEnvs :
       /\ overlay_env' = env
       /\ constraints_file' = authenticated_overlay(constraints_file, env)
  /\ file_before' = constraints_file
  /\ cfile_op' = "overlay"
  /\ cfile_runs' = cfile_runs + 1
  /\ UNCHANGED << file_at_start, template_input >>
  /\ UNCHANGED << scan_vars, canon_vars, builder_vars, cexc_vars, pipe_vars >>

InitOverlay ==
  /\ constraints_file \in OverlayFiles
  /\ file_at_start = constraints_file
  /\ file_before = constraints_file
  /\ overlay_env = << >>
  /\ template_input = << >>
  /\ cfile_op = "none"
  /\ cfile_runs = 0
  /\ ScanIdle
  /\ CanonIdle
  /\ BuilderIdle
  /\ CexcIdle
  /\ PipeIdle

NextOverlay == RunAuthenticatedOverlay

SpecOverlay == InitOverlay /\ [][NextOverlay]_vars

\* build_execution_constraints_template.py, main: one refresh of the
\* constraints file from the candidate list.
RefreshTemplate ==
  /\ cfile_runs < MaxFileRuns
  /\ constraints_file' = refresh_template(constraints_file, template_input)
  /\ file_before' = constraints_file
  /\ cfile_op' = "template"
  /\ cfile_runs' = cfile_runs + 1
  /\ UNCHANGED << file_at_start, template_input, overlay_env >>
  /\ UNCHANGED << scan_vars, canon_vars, builder_vars, cexc_vars, pipe_vars >>

InitTemplate ==
  /\ constraints_file \in TemplateFiles
  /\ file_at_start = constraints_file
  /\ file_before = constraints_file
  /\ overlay_env = << >>
  /\ template_input \in TemplateInputs
  /\ cfile_op = "none"
  /\ cfile_runs = 0
  /\ ScanIdle
  /\ CanonIdle
  /\ BuilderIdle
  /\ CexcIdle
  /\ PipeIdle

NextTemplate == RefreshTemplate

SpecTemplate == InitTemplate /\ [][NextTemplate]_vars

\* build_for_web.py, main: what run() does with the exit code of the step
\* at pipe_pos.
AfterStep(returncode) ==
  /\ failed_steps' = IF returncode # 0 THEN failed_steps \cup { PIPELINE[pipe_pos].name }
                     ELSE failed_steps
  /\ IF run_step(returncode, PIPELINE[pipe_pos].allow_fail) = "raise"
     THEN pipe_state' = "aborted" /\ pipe_pos' = pipe_pos
     ELSE /\ pipe_pos' = pipe_pos + 1
          /\ pipe_state' = IF pipe_pos = Len(PIPELINE) THEN "done" ELSE "running"
  /\ UNCHANGED << scan_vars, canon_vars, builder_vars, cexc_vars, cfile_vars >>

\* main, lines 21-25: a candidate builder. It writes its candidates file as
\* the last thing it does, so a builder that fails leaves the file alone.
BuilderStep ==
  /\ pipe_state = "running"
  /\ PIPELINE[pipe_pos].name \in Range(CandidateBuilders)
  /\ \E out \in BuilderOutcomes(PIPELINE[pipe_pos].name) :
       /\ candidate_files' =
            IF out.returncode = 0
            THEN [ candidate_files EXCEPT ![PIPELINE[pipe_pos].name] = out.candidates ]
            ELSE candidate_files
       /\ AfterStep(out.returncode)
  /\ UNCHANGED << combined_file, shortlist_written, site_built >>

\* main, lines 22, 57-98: the steps whose files this model does not follow
\* (network friction, the two templates, the two authenticated overlays).
AuxiliaryStep ==
  /\ pipe_state = "running"
  /\ PIPELINE[pipe_pos].name \in
       { "friction", "template", "overlay", "fee_template", "fee_overlay" }
  /\ \E returncode \in { 0, 1 } : AfterStep(returncode)
  /\ UNCHANGED << candidate_files, combined_file, shortlist_written, site_built >>

\* main, lines 27-55: the merge and, when it returned, the sample fallback.
MergeStep ==
  /\ pipe_state = "running"
  /\ PIPELINE[pipe_pos].name = "merge"
  /\ \E returncode \in { 0, 1 } :
       /\ combined_file' =
            IF returncode = 0
            THEN Some(sample_fallback(merge_candidate_files(candidate_files, CandidateBuilders)))
            ELSE combined_file
       /\ AfterStep(returncode)
  /\ UNCHANGED << candidate_files, shortlist_written, site_built >>

\* main, lines 105-122: the scorer scores the items of the combined file
\* and writes the shortlist.
ScanStep ==
  /\ pipe_state = "running"
  /\ PIPELINE[pipe_pos].name = "scan"
  /\ \E returncode \in { 0, 1 } :
       /\ shortlist_written' = IF returncode = 0 THEN "this_run" ELSE shortlist_written
       /\ AfterStep(returncode)
  /\ UNCHANGED << candidate_files, combined_file, site_built >>

\* main, lines 124-135: the site is built from the shortlist.
SiteStep ==
  /\ pipe_state = "running"
  /\ PIPELINE[pipe_pos].name = "site"
  /\ \E returncode \in { 0, 1 } :
       /\ site_built' = IF returncode = 0 THEN "this_run" ELSE site_built
       /\ AfterStep(returncode)
  /\ UNCHANGED << candidate_files, combined_file, shortlist_written >>

\* build_for_web.py is started, for the first time or again on the working
\* tree a finished run left: the files are as they were, and what that run
\* built is now the work of an earlier run.
StartPipeline ==
  /\ pipe_state \in { "idle", "done" }
  /\ pipe_pos' = 1
  /\ pipe_state' = "running"
  /\ failed_steps' = { }
  /\ candidate_files' = [ b \in DOMAIN candidate_files |-> EarlierRunFile(candidate_files[b]) ]
  /\ combined_file' = EarlierRunFile(combined_file)
  /\ shortlist_written' = IF shortlist_written = "never" THEN "never" ELSE "earlier_run"
  /\ site_built' = IF site_built = "never" THEN "never" ELSE "earlier_run"
  /\ UNCHANGED << scan_vars, canon_vars, builder_vars, cexc_vars, cfile_vars >>

InitPipeline ==
  /\ PipeIdle
  /\ ScanIdle
  /\ CanonIdle
  /\ BuilderIdle
  /\ CexcIdle
  /\ CfileIdle

PipelineStep == BuilderStep \/ AuxiliaryStep \/ MergeStep \/ ScanStep \/ SiteStep

NextPipeline == StartPipeline \/ PipelineStep

SpecPipeline == InitPipeline /\ [][NextPipeline]_vars

\* main is a sequential program and every subprocess ends (each HTTP call
\* has a timeout), so a started run keeps taking steps until it is done or
\* has raised.
SpecPipelineFair == SpecPipeline /\ WF_vars(PipelineStep)

\* build_depth_slippage, lines 290-300: one iteration of the loop over the
\* size tiers of a venue's order book.
CalcTier ==
  /\ Len(tier_rows) < Len(size_tiers_usd)
  /\ LET size == QInt(size_tiers_usd[Len(tier_rows) + 1])
     IN  tier_rows' = Append(tier_rows, tier_row(size_tiers_usd[Len(tier_rows) + 1], _calc_buy_slippage_bps(mid, asks, size), _calc_sell_slippage_bps(mid, bids, size)))
  /\ UNCHANGED << mid, bids, asks, size_tiers_usd >>
  /\ UNCHANGED scan_vars
  /\ UNCHANGED canon_vars
  /\ UNCHANGED quote_vars
  /\ UNCHANGED dex_vars
  /\ UNCHANGED ops_vars

InitDepth ==
  /\ mid \in MidPrices
  /\ bids \in BidLadders
  /\ asks \in AskLadders
  /\ size_tiers_usd \in SizeTierLists
  /\ tier_rows = << >>
  /\ ScanIdle
  /\ CanonIdle
  /\ QuoteIdle
  /\ DexIdle
  /\ OpsIdle

NextDepth == CalcTier

SpecDepth == InitDepth /\ [][NextDepth]_vars

\* main of the cex_dex builder, lines 359-379: one iteration of the loop
\* over TOKENS; an exception of build_dex_quote counts as no quote.
BuildDexQuote ==
  /\ dex_pc = "quotes"
  /\ token_pos < Len(TOKENS)
  /\ LET token == TOKENS[token_pos + 1]
         mids == VenueMids(cex_quotes, token.symbol)
         dex == IF mids = << >> \/ jupiter[token.symbol].raises THEN None
                ELSE build_dex_quote(RunAt, token, QDiv(QSumSeq(mids), QInt(Len(mids))), QInt(dex_args.size_usd), jupiter[token.symbol])
     IN  /\ dex_quotes' = dex_quotes \o dex
         /\ dex_quotes_by_symbol' =
               IF dex = None THEN dex_quotes_by_symbol
               ELSE ( token.symbol :> dex[1] ) @@ dex_quotes_by_symbol
  /\ token_pos' = IF token_pos + 1 = Len(TOKENS) THEN 0 ELSE token_pos + 1
  /\ dex_pc' = IF token_pos + 1 = Len(TOKENS) THEN "candidates" ELSE "quotes"
  /\ UNCHANGED << dex_args, cex_quotes, jupiter, candidates, dex_quotes_out, candidates_out >>
  /\ UNCHANGED << scan_vars, canon_vars, quote_vars, depth_vars >>
  /\ UNCHANGED ops_vars

\* build_candidates, lines 234-310: one iteration of the loop over TOKENS.
BuildCandidates ==
  /\ dex_pc = "candidates"
  /\ token_pos < Len(TOKENS)
  /\ candidates' = candidates \o token_candidates(RunAt, TOKENS[token_pos + 1], cex_quotes, dex_quotes_by_symbol, dex_args)
  /\ token_pos' = token_pos + 1
  /\ dex_pc' = IF token_pos + 1 = Len(TOKENS) THEN "write" ELSE "candidates"
  /\ UNCHANGED << dex_args, cex_quotes, jupiter, dex_quotes, dex_quotes_by_symbol, dex_quotes_out, candidates_out >>
  /\ UNCHANGED << scan_vars, canon_vars, quote_vars, depth_vars >>
  /\ UNCHANGED ops_vars

\* build_candidates, line 312, and main, lines 394-397: the list is sorted
\* and the two files are written.
WriteCandidates ==
  /\ dex_pc = "write"
  /\ candidates' = SortedByGrossDesc(candidates)
  /\ dex_quotes_out' = dex_quotes
  /\ candidates_out' = SortedByGrossDesc(candidates)
  /\ dex_pc' = "done"
  /\ UNCHANGED << dex_args, cex_quotes, jupiter, dex_quotes, dex_quotes_by_symbol, token_pos >>
  /\ UNCHANGED << scan_vars, canon_vars, quote_vars, depth_vars >>
  /\ UNCHANGED ops_vars

InitDex ==
  /\ dex_args \in DexArgs
  /\ \E rows \in [ DOMAIN TOKENS -> CexScenarios ] : cex_quotes = CexQuotes(rows)
  /\ jupiter \in [ { TOKENS[i].symbol : i \in DOMAIN TOKENS } -> JupiterScenarios ]
  /\ dex_quotes = << >>
  /\ dex_quotes_by_symbol = << >>
  /\ candidates = << >>
  /\ token_pos = 0
  /\ dex_pc = "quotes"
  /\ dex_quotes_out = << >>
  /\ candidates_out = << >>
  /\ ScanIdle
  /\ CanonIdle
  /\ QuoteIdle
  /\ DepthIdle
  /\ OpsIdle

NextDex == BuildDexQuote \/ BuildCandidates \/ WriteCandidates

SpecDex == InitDex /\ [][NextDex]_vars

\* main of the scorer, line 930, and the start of the comprehension at line
\* 990: read_text raises for a missing file, json.loads for a text that is
\* not JSON, and `for item in data` for a value that cannot be iterated;
\* nothing in main catches them.
ReadInput ==
  /\ pc = "read"
  /\ IF input_file.kind \in { "missing", "invalid_json" } \/ ~Iterable(input_file)
     THEN pc' = "failed" /\ data' = data
     ELSE pc' = "score" /\ data' = input_file.items
  /\ UNCHANGED << args, fee_payload, book_payload, fee_table, constraint_book, scored,
                  shortlist, run, prev_shortlist, input_file, written, summary >>
  /\ UNCHANGED canon_vars
  /\ UNCHANGED builder_vars
  /\ UNCHANGED ops_vars

\* score_item, lines 552-556 and 690-697, on an item it cannot index: the
\* KeyError or TypeError leaves main before anything is written.
ScoreRaise ==
  /\ pc = "score"
  /\ Len(scored) < Len(data)
  /\ ~WellFormed(data[Len(scored) + 1])
  /\ pc' = "failed"
  /\ UNCHANGED << args, data, fee_payload, book_payload, fee_table, constraint_book, scored,
                  shortlist, run, prev_shortlist, input_file, written, summary >>
  /\ UNCHANGED canon_vars
  /\ UNCHANGED builder_vars
  /\ UNCHANGED ops_vars

\* The process's exit status: 0 when main returns, 1 after an uncaught
\* exception; None while it runs.
exit_code == IF pc = "done" THEN Some(0) ELSE IF pc = "failed" THEN Some(1) ELSE None

\* The items of an input array: a candidate that qualifies, one that does
\* not, a candidate without fees_bps, one without detected_at, a string.
ExitItems ==
  { Cand("cex_cex", s_BTC_USDT, s_binance, s_bybit, 20000000, 4000000, 3000000, 1000000, 2000000, 10000),
    Cand("cex_cex", s_BTC_USDT, s_binance, s_bybit, 2000000, 4000000, 3000000, 1000000, 2000000, 10000),
    Without(Cand("cex_cex", s_BTC_USDT, s_binance, s_bybit, 20000000, 4000000, 3000000, 1000000, 2000000, 10000), "fees_bps"),
    Without(Cand("cex_cex", s_BTC_USDT, s_binance, s_bybit, 20000000, 4000000, 3000000, 1000000, 2000000, 10000), "detected_at"),
    JsonString }

ExitInputs ==
  { JsonArray(items) : items \in SeqsUpTo(ExitItems, MaxItems) }
    \cup { JsonObject(0), JsonObject(1), JsonText(0), JsonText(1) }
    \cup { [ kind |-> k, items |-> << >> ] : k \in { "missing", "invalid_json", "number", "null" } }

InitExit ==
  /\ args \in { DefaultArgs("taker_default"), DefaultArgs("maker_inventory") }
  /\ input_file \in ExitInputs
  /\ data = << >>
  /\ fee_payload = NoPayload
  /\ book_payload = NoBook
  /\ fee_table = FeeTable_init(NoPayload, << >>)
  /\ constraint_book = ConstraintBook_init(NoBook, << >>)
  /\ scored = << >>
  /\ shortlist = << >>
  /\ pc = "read"
  /\ run = 1
  /\ prev_shortlist = << >>
  /\ written = { }
  /\ summary = None
  /\ CanonIdle
  /\ BuilderIdle
  /\ OpsIdle

NextExit == ReadInput \/ ScoreNext \/ ScoreRaise \/ Finish

SpecExit == InitExit /\ [][NextExit]_vars

\* ------------------------------------------------------------ properties
\* The profile parameters main hands to score_item in this run.
RunParams == Params(args, fee_table)

\* C1: every scored candidate is qualified exactly when its net edge reaches
\* min_net_edge_bps, its risk score stays within max_risk_score, and none of
\* the four constraint checks failed.
C1_QualifiedIffGatesPass ==
  \A i \in DOMAIN scored :
    scored[i].is_qualified <=>
      /\ scored[i].net_edge_bps >= RunParams.min_net_edge_bps
      /\ scored[i].risk_score <= RunParams.max_risk_score
      /\ ~scored[i].position_limit_exceeded
      /\ ~scored[i].borrow_limit_exceeded
      /\ ~scored[i].inventory_unavailable
      /\ ~scored[i].leverage_limit_exceeded

\* A candidate whose net edge and risk pass and that only the leverage cap
\* keeps out.
C1_Witness ==
  \E i \in DOMAIN scored :
    /\ scored[i].net_edge_bps >= RunParams.min_net_edge_bps
    /\ scored[i].risk_score <= RunParams.max_risk_score
    /\ scored[i].leverage_limit_exceeded
    /\ ~scored[i].position_limit_exceeded
    /\ ~scored[i].borrow_limit_exceeded
    /\ ~scored[i].inventory_unavailable
    /\ ~scored[i].is_qualified

\* gross - fees - slippage - latency - transfer risk - borrow cost, from the
\* emitted fields, in millionths of a bp.
ExactNetEdge(s) ==
  s.gross_edge_bps - s.fees_bps - s.slippage_bps - s.latency_risk_bps
    - s.transfer_risk_bps - s.borrow_cost_bps

\* C2: the emitted net_edge_bps is within 1e-4 bps of gross minus the five
\* emitted frictions.
C2_NetEdgeIdentity ==
  \A i \in DOMAIN scored :
    /\ scored[i].net_edge_bps - ExactNetEdge(scored[i]) <= 100
    /\ ExactNetEdge(scored[i]) - scored[i].net_edge_bps <= 100

\* A candidate that pays borrow cost and whose exact net edge is not on the
\* four-decimal grid.
C2_Witness ==
  \E i \in DOMAIN scored :
    /\ scored[i].borrow_cost_bps > 0
    /\ scored[i].net_edge_bps # ExactNetEdge(scored[i])

\* C3: the risk score lies between 0 and 1 (in ten-thousandths).
C3_RiskScoreInUnitInterval ==
  \A i \in DOMAIN scored : scored[i].risk_score >= 0 /\ scored[i].risk_score <= 10000

\* A candidate whose fee, slippage, latency and transfer components all
\* exceed their scale and whose net edge is negative.
C3_Witness ==
  \E i \in DOMAIN scored :
    /\ scored[i].fees_bps > 20 * Micro
    /\ scored[i].slippage_bps > 20 * Micro
    /\ scored[i].latency_risk_bps > 12 * Micro
    /\ scored[i].transfer_risk_bps > 12 * Micro
    /\ scored[i].net_edge_bps < 0

\* The weighting with no borrow component: 0.20 fee, 0.25 slippage,
\* 0.20 latency, 0.20 transfer, 0.15 edge buffer.
NoBorrowRiskScore(s) ==
  RoundSumDiv(
    << RiskTerm(20, s.fees_bps, 20),
       RiskTerm(25, s.slippage_bps, 20),
       RiskTerm(20, s.latency_risk_bps, 12),
       RiskTerm(20, s.transfer_risk_bps, 12),
       RiskTerm(15, 10 * Micro - Max(s.net_edge_bps, 0), 10) >>,
    RiskDen)

\* The weighting 0.18/0.22/0.16/0.16/0.14/0.14 with the borrow component.
BorrowRiskScore(s) ==
  RoundSumDiv(
    << RiskTerm(18, s.fees_bps, 20),
       RiskTerm(22, s.slippage_bps, 20),
       RiskTerm(16, s.latency_risk_bps, 12),
       RiskTerm(16, s.transfer_risk_bps, 12),
       RiskTerm(14, s.borrow_cost_bps, 12),
       RiskTerm(14, 10 * Micro - Max(s.net_edge_bps, 0), 10) >>,
    RiskDen)

\* C4: with the constraint book disabled the risk score uses the no-borrow
\* weighting 0.20/0.25/0.20/0.20/0.15; with the book enabled it uses
\* 0.18/0.22/0.16/0.16/0.14/0.14.
C4_RiskWeightingByConstraintMode ==
  \A i \in DOMAIN scored :
    scored[i].risk_score =
      IF scored[i].constraints_enabled THEN BorrowRiskScore(scored[i])
      ELSE NoBorrowRiskScore(scored[i])

\* C5: in the final shortlist qualified opportunities come first, and among
\* opportunities with the same is_qualified value net_edge_bps never increases.
C5_ShortlistSorted ==
  pc = "done" =>
    \A i, j \in DOMAIN shortlist :
      i < j =>
        /\ shortlist[j].is_qualified => shortlist[i].is_qualified
        /\ shortlist[i].is_qualified = shortlist[j].is_qualified
             => shortlist[i].net_edge_bps >= shortlist[j].net_edge_bps

\* A run in which the sort moved a qualified opportunity ahead of a
\* non-qualified one with a larger net edge.
C5_Witness ==
  /\ pc = "done"
  /\ Len(shortlist) = 2
  /\ shortlist[1] # Emitted(scored[1])
  /\ shortlist[1].is_qualified
  /\ ~shortlist[2].is_qualified
  /\ shortlist[2].net_edge_bps > shortlist[1].net_edge_bps

\* (symbol, buy_venue, sell_venue) compared as Python compares tuples of str.
TieKeyLess(a, b) ==
  \/ StrLess(a.symbol, b.symbol)
  \/ a.symbol = b.symbol /\ StrLess(a.buy_venue, b.buy_venue)
  \/ a.symbol = b.symbol /\ a.buy_venue = b.buy_venue /\ StrLess(a.sell_venue, b.sell_venue)

\* C6: opportunities of the final shortlist that tie on is_qualified and
\* net_edge_bps stand in lexicographic order of (symbol, buy_venue, sell_venue).
C6_TiesInLexicographicOrder ==
  pc = "done" =>
    \A i, j \in DOMAIN shortlist :
      /\ i < j
      /\ shortlist[i].is_qualified = shortlist[j].is_qualified
      /\ shortlist[i].net_edge_bps = shortlist[j].net_edge_bps
      => ~TieKeyLess(shortlist[j], shortlist[i])

\* The taxonomy reasons whose condition holds for a scored opportunity.
ReasonsThatHold(s) ==
  { r \in { "net_edge_below_threshold", "risk_score_above_threshold", "fee_dominated",
            "slippage_dominated", "latency_transfer_dominated", "borrow_dominated",
            "position_limit_exceeded", "inventory_unavailable", "borrow_limit_exceeded",
            "leverage_limit_exceeded" } :
      CASE r = "net_edge_below_threshold" -> s.net_edge_bps < RunParams.min_net_edge_bps
        [] r = "risk_score_above_threshold" -> s.risk_score > RunParams.max_risk_score
        [] r = "fee_dominated" -> s.fees_bps >= s.gross_edge_bps
        [] r = "slippage_dominated" -> s.slippage_bps >= s.gross_edge_bps
        [] r = "latency_transfer_dominated" ->
             s.latency_risk_bps + s.transfer_risk_bps >= s.gross_edge_bps
        [] r = "borrow_dominated" ->
             s.borrow_cost_bps > 0 /\ s.borrow_cost_bps >= s.gross_edge_bps
        [] r = "position_limit_exceeded" -> s.position_limit_exceeded
        [] r = "inventory_unavailable" -> s.inventory_unavailable
        [] r = "borrow_limit_exceeded" -> s.borrow_limit_exceeded
        [] r = "leverage_limit_exceeded" -> s.leverage_limit_exceeded }

\* C7: a non-qualified opportunity lists exactly the taxonomy reasons whose
\* condition holds, all of them together and each once.
C7_RejectionReasonsExact ==
  \A i \in DOMAIN scored :
    ~scored[i].is_qualified =>
      /\ Range(scored[i].rejection_reasons) = ReasonsThatHold(scored[i])
      /\ Len(scored[i].rejection_reasons) = Cardinality(ReasonsThatHold(scored[i]))

\* A rejected candidate for which two domination reasons and a constraint
\* reason hold at once.
C7_Witness ==
  \E i \in DOMAIN scored :
    /\ ~scored[i].is_qualified
    /\ { "fee_dominated", "slippage_dominated" } \subseteq Range(scored[i].rejection_reasons)
    /\ Range(scored[i].rejection_reasons)
         \cap { "position_limit_exceeded", "inventory_unavailable",
                "borrow_limit_exceeded", "leverage_limit_exceeded" } # {}

\* (buy side fee + sell side fee) * strategy side multiplier, rounded as the
\* table rounds it, read off the table for the fee mode the record names.
RoundtripTotal(item, fee_mode) ==
  RoundMul6(side_fee_bps(fee_table, item.buy_venue, fee_mode)
              + side_fee_bps(fee_table, item.sell_venue, fee_mode),
            Get(fee_table.strategy_roundtrip_side_multiplier, item.strategy_type, One))

\* C8: with the fee table disabled fees_bps is the candidate's embedded
\* fees_bps times fee_multiplier and fee_model_used is false; with the table
\* enabled fees_bps is the table's roundtrip total times fee_multiplier,
\* whatever the embedded fees_bps, and fee_model_used is true.
C8_FeeSource ==
  \A i \in DOMAIN scored :
    IF fee_table.enabled
    THEN /\ scored[i].fee_model_used
         /\ scored[i].fee_mode \in FeeModes
         /\ scored[i].fees_bps =
              RoundMul6(RoundtripTotal(data[i], scored[i].fee_mode),
                        RunParams.fee_multiplier)
    ELSE /\ ~scored[i].fee_model_used
         /\ scored[i].fees_bps = RoundMul6(data[i].fees_bps, RunParams.fee_multiplier)

\* A funding-carry candidate (two fills a side) priced off the table at a
\* total that differs from its embedded fees.
C8_Witness ==
  \E i \in DOMAIN scored :
    /\ fee_table.enabled
    /\ data[i].strategy_type = "funding_carry_cex_cex"
    /\ scored[i].fee_model_used
    /\ scored[i].fee_model_base_fees_bps # data[i].fees_bps

\* C9: canonical_venue applied to its own result returns that result.
C9_CanonicalVenueIdempotent ==
  Len(canon_hist) = 2 => canon_hist[2] = canon_hist[1]

\* C10: a second run over the same candidates, parameters, fee table and
\* constraint book writes the records the first run wrote.
C10_RunsAgree ==
  (run > 1 /\ pc = "done") => shortlist = prev_shortlist

\* The constraint book's limits for the sell leg and the buy leg of the
\* i-th candidate.
SellSide(i) ==
  constraints_for(constraint_book, data[i].sell_venue, asset_from_symbol(data[i].symbol))
BuySide(i) ==
  constraints_for(constraint_book, data[i].buy_venue, asset_from_symbol(data[i].symbol))

\* C11: with constraints enabled, a candidate of a strategy outside
\* {cex_cex, cex_dex, perp_spot_basis} needs no borrow, pays no borrow cost
\* and is flagged neither inventory_unavailable nor borrow_limit_exceeded.
C11_FundingCarryNeedsNoInventory ==
  \A i \in DOMAIN scored :
    ( /\ constraint_book.enabled
      /\ data[i].strategy_type \notin { "cex_cex", "cex_dex", "perp_spot_basis" } )
    => /\ scored[i].borrow_required_usd = 0
       /\ scored[i].borrow_cost_bps = 0
       /\ ~scored[i].inventory_unavailable
       /\ ~scored[i].borrow_limit_exceeded

\* A funding carry larger than an empty sell side that lends nothing.
C11_Witness ==
  \E i \in DOMAIN scored :
    /\ constraint_book.enabled
    /\ data[i].strategy_type = "funding_carry_cex_cex"
    /\ SellSide(i).available_inventory_usd = 0
    /\ SellSide(i).max_borrow_usd = 0
    /\ data[i].size_usd > 0

\* C12: with constraints enabled and an inventory-required strategy,
\* borrow_required_usd is max(0, size - sell-side inventory),
\* borrow_limit_exceeded holds exactly when it exceeds the sell side's
\* max_borrow_usd, and a candidate so flagged is not qualified.
C12_BorrowLimit ==
  \A i \in DOMAIN scored :
    ( /\ constraint_book.enabled
      /\ data[i].strategy_type \in { "cex_cex", "cex_dex", "perp_spot_basis" } )
    => /\ scored[i].borrow_required_usd
            = Max(0, data[i].size_usd - SellSide(i).available_inventory_usd)
       /\ scored[i].borrow_limit_exceeded
            <=> scored[i].borrow_required_usd > SellSide(i).max_borrow_usd
       /\ scored[i].borrow_limit_exceeded => ~scored[i].is_qualified

\* A candidate with some inventory whose shortfall exceeds the borrow capacity
\* while its net edge and risk score pass.
C12_Witness ==
  \E i \in DOMAIN scored :
    /\ scored[i].borrow_limit_exceeded
    /\ SellSide(i).available_inventory_usd > 0
    /\ SellSide(i).max_borrow_usd > 0
    /\ scored[i].net_edge_bps >= RunParams.min_net_edge_bps
    /\ scored[i].risk_score <= RunParams.max_risk_score
    /\ ~scored[i].is_qualified

\* C13: with constraints enabled, inventory_unavailable holds exactly when
\* the strategy requires inventory and the sell side has neither inventory
\* nor borrow capacity; it never holds when max_borrow_usd > 0.
C13_InventoryUnavailable ==
  \A i \in DOMAIN scored :
    constraint_book.enabled
    => /\ scored[i].inventory_unavailable
            <=> /\ data[i].strategy_type \in { "cex_cex", "cex_dex", "perp_spot_basis" }
                /\ SellSide(i).available_inventory_usd = 0
                /\ SellSide(i).max_borrow_usd = 0
       /\ SellSide(i).max_borrow_usd > 0 => ~scored[i].inventory_unavailable

\* No inventory, some borrow capacity, and a shortfall beyond it.
C13_Witness ==
  \E i \in DOMAIN scored :
    /\ constraint_book.enabled
    /\ SellSide(i).available_inventory_usd = 0
    /\ SellSide(i).max_borrow_usd > 0
    /\ scored[i].borrow_limit_exceeded
    /\ ~scored[i].inventory_unavailable

\* The minimum of the positive buy-side and sell-side leverage caps, 0 when
\* neither leg has one.
EffectiveMaxLeverage(i) ==
  LET caps == { v \in { BuySide(i).max_leverage, SellSide(i).max_leverage } : v > 0 }
  IN  IF caps = {} THEN 0 ELSE CHOOSE v \in caps : \A w \in caps : v <= w

\* size_usd * the book's multiplier for the candidate's strategy.
LeverageNotional(i) ==
  LET m == Get(constraint_book.strategy_leverage_notional_multiplier,
               data[i].strategy_type, One)
  IN  RoundHalfEven(data[i].size_usd * m.n, m.d)

EquityBase(i) == Max(0, SellSide(i).available_inventory_usd)

\* Notional over equity base, to six decimals.
LeverageUsed(i) ==
  IF EquityBase(i) > 0 THEN RatioMicro(LeverageNotional(i), EquityBase(i)) ELSE 0

RuleRow(venue, symbol) ==
  Get(constraint_book.rules,
      << ConstraintBook_canonical_venue(venue, constraint_book.known_venues),
         asset_from_symbol(symbol) >>,
      EmptyMap)
LacksPositionLimit(venue, symbol) ==
  /\ "max_position_usd" \notin DOMAIN RuleRow(venue, symbol)
  /\ "max_position_usd" \notin DOMAIN constraint_book.defaults
PositionLimit(venue, symbol) ==
  IF "max_position_usd" \in DOMAIN RuleRow(venue, symbol)
  THEN RuleRow(venue, symbol).max_position_usd
  ELSE IF "max_position_usd" \in DOMAIN constraint_book.defaults
  THEN constraint_book.defaults.max_position_usd
  ELSE UNBOUNDED_USD

\* C15: with constraints enabled, position_limit_exceeded holds exactly when
\* size_usd exceeds the smaller of the two legs' max_position_usd, a field set
\* neither in the rule nor in defaults being unbounded; a candidate whose two
\* legs both lack it is never flagged.
C15_PositionLimit ==
  \A i \in DOMAIN scored :
    constraint_book.enabled
    => /\ scored[i].position_limit_exceeded
            <=> data[i].size_usd > Min(PositionLimit(data[i].buy_venue, data[i].symbol),
                                       PositionLimit(data[i].sell_venue, data[i].symbol))
       /\ ( /\ LacksPositionLimit(data[i].buy_venue, data[i].symbol)
            /\ LacksPositionLimit(data[i].sell_venue, data[i].symbol) )
          => ~scored[i].position_limit_exceeded

\* The largest candidate against a book that sets max_position_usd nowhere.
C15_Witness ==
  \E i \in DOMAIN scored :
    /\ constraint_book.enabled
    /\ LacksPositionLimit(data[i].buy_venue, data[i].symbol)
    /\ LacksPositionLimit(data[i].sell_venue, data[i].symbol)
    /\ data[i].size_usd = 20000
    /\ ~scored[i].position_limit_exceeded

\* min(borrow_required_usd, sell-side max_borrow_usd).
BorrowUsed(i) == Min(scored[i].borrow_required_usd, SellSide(i).max_borrow_usd)

\* The book's hold time for the candidate's strategy.
HoldHours(i) == Get(constraint_book.strategy_hold_hours, data[i].strategy_type, One)

\* (borrow_used / size_usd) * rate * hold_hours to six decimals; the ratio is
\* reduced before it is multiplied.
BorrowCostFormula(i) ==
  LET g == Gcd(BorrowUsed(i), data[i].size_usd)
  IN  RoundHalfEven(
        (BorrowUsed(i) \div g) * SellSide(i).borrow_rate_bps_per_hour * HoldHours(i).n,
        (data[i].size_usd \div g) * HoldHours(i).d)

\* C16: with constraints enabled borrow_cost_bps is
\* (borrow_used / size_usd) * sell-side borrow rate * the strategy's hold
\* hours, hence at least 0 and at most rate * hold hours (to the sixth
\* decimal); with constraints disabled it is 0.
C16_BorrowCost ==
  \A i \in DOMAIN scored :
    IF constraint_book.enabled
    THEN /\ scored[i].borrow_cost_bps = BorrowCostFormula(i)
         /\ scored[i].borrow_cost_bps >= 0
         /\ 2 * ( scored[i].borrow_cost_bps * HoldHours(i).d
                    - SellSide(i).borrow_rate_bps_per_hour * HoldHours(i).n )
              <= HoldHours(i).d
    ELSE scored[i].borrow_cost_bps = 0

\* A borrow capped below the shortfall, charged for a hold time other than
\* one hour.
C16_Witness ==
  \E i \in DOMAIN scored :
    /\ constraint_book.enabled
    /\ scored[i].borrow_cost_bps > 0
    /\ scored[i].borrow_required_usd > SellSide(i).max_borrow_usd
    /\ HoldHours(i) # One


\* The ways to write a venue symbol as BASE + quote with a non-empty BASE and
\* a quote in {USDT, USDC}.
Splits(symbol) ==
  { sp \in { << SubSeq(symbol, 1, n), q >> : n \in 1 .. Len(symbol), q \in { s_USDT, s_USDC } } :
      sp[1] \o sp[2] = symbol }

\* C17: an iteration of normalize_quotes over a venue symbol that has a row
\* and is BASE + quote, for a non-empty BASE and a quote in {USDT, USDC},
\* appends one Quote whose base is exactly BASE and whose quote is exactly
\* that quote, whose symbol is "BASE/QUOTE", and whose base and quote
\* concatenated give back the venue symbol; an iteration over a symbol with
\* neither suffix, or with an empty base, appends nothing.
C17_SymbolRoundTrip ==
  [][ norm_pos' = norm_pos + 1 =>
        LET venue == IF norm_pos < Len(symbols) THEN s_binance ELSE s_bybit
            source == IF norm_pos < Len(symbols) THEN binance ELSE bybit
            symbol == symbols[(norm_pos % Len(symbols)) + 1]
        IN  IF symbol \in DOMAIN source /\ Splits(symbol) # { }
            THEN \A sp \in Splits(symbol) :
                   /\ Len(normalized') = Len(normalized) + 1
                   /\ SubSeq(normalized', 1, Len(normalized)) = normalized
                   /\ LET q == normalized'[Len(normalized')]
                      IN  /\ q.venue = venue
                          /\ q.base = sp[1]
                          /\ q.quote = sp[2]
                          /\ q.symbol = sp[1] \o << "/" >> \o sp[2]
                          /\ q.base \o q.quote = symbol
            ELSE normalized' = normalized ]_vars

\* A finished normalize_quotes that split BTCUSDT and USDCUSDT for binance and
\* skipped a bare "USDT" that binance quoted.
C17_Witness ==
  /\ norm_pos = 2 * Len(symbols)
  /\ \E i \in DOMAIN normalized :
       /\ normalized[i].venue = s_binance
       /\ normalized[i].base = s_BTC
       /\ normalized[i].quote = s_USDT
  /\ \E j \in DOMAIN symbols : symbols[j] = s_USDT /\ s_USDT \in DOMAIN binance
  /\ \A i \in DOMAIN normalized : normalized[i].base # << >>


\* The exact slippage of a size tier on each side of the book.
BuySlip(i) == _calc_buy_slippage_bps(mid, asks, QInt(size_tiers_usd[i]))
SellSlip(i) == _calc_sell_slippage_bps(mid, bids, QInt(size_tiers_usd[i]))

DeviationBps(q) ==
  QMul(QDiv(QAbs(QSub(q.mid_price, q.cex_reference_mid)), q.cex_reference_mid), QInt(10000))
RawSpreadBps(q) == QMul(QDiv(QSub(q.ask_price, q.bid_price), q.mid_price), QInt(10000))
DeviatesTooFar(q) == ~QLeqWide(DeviationBps(q), Frac(dex_args.max_ref_deviation_bps, Micro))
Crossed(q) == ~QLeqWide(QInt(0 - 1), RawSpreadBps(q))
CandidatesOf(token) ==
  { c \in Range(candidates) \cup Range(candidates_out) : c.symbol = token.base \o << "/" >> \o s_USDT }

\* C19: in a run of the cex_dex builder, a token whose DEX quote deviates
\* from the CEX reference mid by more than max_ref_deviation_bps, or whose
\* DEX quote is crossed (raw spread below -1 bp), has no candidate in the
\* list or in the written file, in either direction and on any venue.
C19_GuardedTokenYieldsNoCandidate ==
  \A i \in DOMAIN TOKENS :
    (/\ TOKENS[i].symbol \in DOMAIN dex_quotes_by_symbol
     /\ \/ DeviatesTooFar(dex_quotes_by_symbol[TOKENS[i].symbol])
        \/ Crossed(dex_quotes_by_symbol[TOKENS[i].symbol]))
      => CandidatesOf(TOKENS[i]) = { }


\* C20: a run of the scorer on a readable input, a file that holds a JSON
\* array, ends with exit code 0 and all three outputs written, whether or
\* not a candidate qualified; a run that ends with another exit code had an
\* unreadable input: a missing file, invalid JSON, or a value that is not an
\* array.
C20_ExitCodeByReadability ==
  (exit_code # None) =>
    /\ input_file.kind = "array" =>
         /\ exit_code = Some(0)
         /\ written = { "output_json", "output_md", "output_summary" }
    /\ exit_code # Some(0) => input_file.kind # "array"

\* C28: every scored opportunity has an empty rejection_reasons list exactly
\* when it is qualified, with the constraint book enabled or disabled.
C28_ReasonsEmptyIffQualified ==
  \A i \in DOMAIN scored :
    (scored[i].rejection_reasons = << >>) <=> scored[i].is_qualified

\* A candidate that clears both thresholds and is rejected by a constraint
\* alone has been scored.
C28_Witness ==
  \E i \in DOMAIN scored :
    /\ constraint_book.enabled
    /\ ~scored[i].is_qualified
    /\ scored[i].net_edge_bps >= RunParams.min_net_edge_bps
    /\ scored[i].risk_score <= RunParams.max_risk_score
    /\ scored[i].rejection_reasons # << >>

\* The five friction components of a scored opportunity, in the order in which
\* _dominant_drag lists them.
DragOrder == << "fees", "slippage", "latency", "transfer", "borrow" >>
DragValue(s, name) ==
  CASE name = "fees" -> s.fees_bps
    [] name = "slippage" -> s.slippage_bps
    [] name = "latency" -> s.latency_risk_bps
    [] name = "transfer" -> s.transfer_risk_bps
    [] name = "borrow" -> s.borrow_cost_bps

\* C26: dominant_drag names a component whose post-overlay value is maximal
\* among fees, slippage, latency, transfer risk and borrow cost, and no
\* component earlier in that order has the same value.
C26_DominantDragFirstMax ==
  \A i \in DOMAIN scored :
    \E p \in DOMAIN DragOrder :
      /\ scored[i].dominant_drag = DragOrder[p]
      /\ \A q \in DOMAIN DragOrder :
           DragValue(scored[i], DragOrder[q]) <= DragValue(scored[i], DragOrder[p])
      /\ \A q \in 1 .. (p - 1) :
           DragValue(scored[i], DragOrder[q]) < DragValue(scored[i], DragOrder[p])

\* A candidate whose five components are all equal and positive was scored
\* and reports "fees".
C26_Witness ==
  \E i \in DOMAIN scored :
    /\ \A q \in DOMAIN DragOrder : DragValue(scored[i], DragOrder[q]) = 3000000
    /\ scored[i].dominant_drag = "fees"

\* The positions of the non-qualified items of the written shortlist.
RejectedItems == { i \in DOMAIN shortlist : ~shortlist[i].is_qualified }

AllReasons ==
  { "net_edge_below_threshold", "risk_score_above_threshold", "fee_dominated",
    "slippage_dominated", "latency_transfer_dominated", "borrow_dominated",
    "position_limit_exceeded", "inventory_unavailable", "borrow_limit_exceeded",
    "leverage_limit_exceeded" }

\* C25: in the summary of a run, counts.candidates = counts.qualified +
\* counts.rejected; rejection_reason_counts and dominant_drag_counts tally the
\* non-qualified items only, the drag counts adding up to counts.rejected;
\* top_rejected has at most 10 entries, each taken from a non-qualified item,
\* in non-increasing net_edge_bps order, and no rejected item that was left
\* out has a higher net_edge_bps than a listed one.
C25_SummaryTallies ==
  summary # None =>
    LET sm == summary[1]
        top == sm.top_rejected
        TopCount(v) == Cardinality({ k \in DOMAIN top : top[k].net_edge_bps = v })
        RejCount(v) == Cardinality({ i \in RejectedItems : shortlist[i].net_edge_bps = v })
    IN  /\ sm.counts.candidates = Len(shortlist)
        /\ sm.counts.candidates = sm.counts.qualified + sm.counts.rejected
        /\ sm.counts.rejected = Cardinality(RejectedItems)
        /\ DOMAIN sm.rejection_reason_counts \subseteq AllReasons
        /\ \A r \in AllReasons :
             Get(sm.rejection_reason_counts, r, 0) =
               Cardinality({ i \in RejectedItems : r \in Range(shortlist[i].rejection_reasons) })
        /\ DOMAIN sm.dominant_drag_counts \subseteq Range(DragOrder)
        /\ \A d \in Range(DragOrder) :
             Get(sm.dominant_drag_counts, d, 0) =
               Cardinality({ i \in RejectedItems : shortlist[i].dominant_drag = d })
        /\ SumSeq([ k \in DOMAIN DragOrder |-> Get(sm.dominant_drag_counts, DragOrder[k], 0) ])
             = sm.counts.rejected
        /\ Len(top) = Min(10, Cardinality(RejectedItems))
        /\ \A k \in DOMAIN top :
             /\ \E i \in RejectedItems : top[k] = top_rejected_entry(shortlist[i])
             /\ TopCount(top[k].net_edge_bps) <= RejCount(top[k].net_edge_bps)
             /\ k > 1 => top[k - 1].net_edge_bps >= top[k].net_edge_bps
        /\ \A i \in RejectedItems :
             TopCount(shortlist[i].net_edge_bps) < RejCount(shortlist[i].net_edge_bps)
               => \A k \in DOMAIN top : top[k].net_edge_bps >= shortlist[i].net_edge_bps

\* A run with qualified items and more than ten rejected ones, of which the
\* summary lists ten and leaves out the ones with the lowest net edge.
C25_Witness ==
  /\ summary # None
  /\ Cardinality(RejectedItems) > 10
  /\ Cardinality(RejectedItems) < Len(shortlist)
  /\ Len(summary[1].top_rejected) = 10
  /\ summary[1].top_rejected[1].net_edge_bps > summary[1].top_rejected[10].net_edge_bps

\* The candidates that the cex_cex builder emitted for a venue symbol.
EmittedFor(symbol) ==
  { i \in DOMAIN cex_candidates : cex_candidates[i].symbol = candidate_symbol(symbol) }

\* C27: for every candidate the cex_cex builder emits for a venue symbol
\* BASE+QUOTE with QUOTE in {USDT, USDC}, the asset the ConstraintBook
\* extracts from the candidate's symbol is BASE.
C27_AssetIsBase ==
  cex_pc = "done" =>
    \A k \in DOMAIN symbols :
      _parse_symbol(symbols[k]) # None =>
        \A i \in EmittedFor(symbols[k]) :
          asset_from_symbol(cex_candidates[i].symbol) = _parse_symbol(symbols[k])[1][1]

\* The validated quotes of a symbol on the two venues.
BinanceQuote(symbol) == by_symbol_venue(normalized, symbol, s_binance)
BybitQuote(symbol) == by_symbol_venue(normalized, symbol, s_bybit)

\* The exact gross edge of the direction a candidate was emitted for.
ExactGross(c, symbol) ==
  IF c.buy_venue = s_binance
  THEN gross_edge(BinanceQuote(symbol)[1].ask_price, BybitQuote(symbol)[1].bid_price)
  ELSE gross_edge(BybitQuote(symbol)[1].ask_price, BinanceQuote(symbol)[1].bid_price)

\* At most one direction per symbol when min_gross_edge_bps >= 0.
OneDirection ==
  (cex_pc = "done" /\ QLeq(QInt(0), cex_args.min_gross_edge_bps)) =>
    \A k \in DOMAIN symbols : Cardinality(EmittedFor(symbols[k])) <= 1

\* C29 as stated: with min_gross_edge_bps >= 0 at most one of the two
\* directions is emitted for any symbol, and every emitted candidate has
\* gross_edge_bps >= min_gross_edge_bps.
C29_OneDirectionAboveThreshold ==
  /\ OneDirection
  /\ (cex_pc = "done" /\ QLeq(QInt(0), cex_args.min_gross_edge_bps)) =>
       \A i \in DOMAIN cex_candidates :
         QLeqWide(cex_args.min_gross_edge_bps, Frac(cex_candidates[i].gross_edge_bps, Micro))

\* C29 amended: with min_gross_edge_bps >= 0 at most one of the two directions
\* is emitted for any symbol; the gross edge of every emitted direction,
\* before it is rounded, is >= min_gross_edge_bps, and the stored
\* gross_edge_bps is that edge rounded to six decimals, so it is >=
\* min_gross_edge_bps rounded to six decimals.
C29_OneDirectionExactEdgeAboveThreshold ==
  /\ OneDirection
  /\ (cex_pc = "done" /\ QLeq(QInt(0), cex_args.min_gross_edge_bps)) =>
       \A k \in DOMAIN symbols :
         \A i \in EmittedFor(symbols[k]) :
           /\ QLeqWide(cex_args.min_gross_edge_bps, ExactGross(cex_candidates[i], symbols[k]))
           /\ cex_candidates[i].gross_edge_bps = QRound6(ExactGross(cex_candidates[i], symbols[k]))
           /\ cex_candidates[i].gross_edge_bps >= QRound6(cex_args.min_gross_edge_bps)

\* A run with a positive threshold emitted, for a symbol both venues quote,
\* the direction that buys on bybit and not the other one.
C29_Witness ==
  /\ cex_pc = "done"
  /\ QLess(QInt(0), cex_args.min_gross_edge_bps)
  /\ \E k \in DOMAIN symbols :
       /\ BinanceQuote(symbols[k]) # None
       /\ BybitQuote(symbols[k]) # None
       /\ \E i \in EmittedFor(symbols[k]) :
            /\ EmittedFor(symbols[k]) = { i }
            /\ cex_candidates[i].buy_venue = s_bybit
            /\ cex_candidates[i].gross_edge_bps > 0

\* ------------------------------------------------- the authenticated overlay
LimitKeys ==
  { "max_position_usd", "available_inventory_usd", "max_borrow_usd",
    "borrow_rate_bps_per_hour" }
RuleLimits(row) ==
  [ venue |-> Get(row, "venue", << >>), asset |-> Get(row, "asset", << >>),
    limits |-> [ k \in LimitKeys \cap DOMAIN row |-> row[k] ] ]
Occurrences(rules, r) == Cardinality({ i \in DOMAIN rules : RuleLimits(rules[i]) = r })
SameRuleLimits(old, new) ==
  /\ Len(old) = Len(new)
  /\ \A i \in DOMAIN old :
       Occurrences(old, RuleLimits(old[i])) = Occurrences(new, RuleLimits(old[i]))

\* No authenticated call gave an answer: each venue lacks its credentials
\* or each of its calls raised.
NoAnswers(env) ==
  /\ env.binance_inventory = None
  /\ DOMAIN env.max_borrowable = { }
  /\ env.interest_rate = None
  /\ env.bybit_inventory = None

\* C23: an overlay run without credentials for both venues, or whose
\* authenticated calls all failed, leaves the four limits of every rule as
\* they were; the file holds the same rules, possibly in another order.
C23_FailSoftKeepsLimits ==
  (cfile_op = "overlay" /\ NoAnswers(overlay_env))
    => /\ SameRuleLimits(file_before.rules, constraints_file.rules)
       /\ constraints_file.defaults = file_before.defaults

\* Both venues had credentials, every call failed, and the run reordered
\* a file that holds a Binance rule.
C23_Witness ==
  /\ cfile_op = "overlay"
  /\ NoAnswers(overlay_env)
  /\ overlay_env.binance_auth
  /\ overlay_env.bybit_auth
  /\ constraints_file.rules # file_before.rules
  /\ \E i \in DOMAIN constraints_file.rules :
       /\ constraints_file.rules[i].venue = s_binance
       /\ constraints_file.rules[i].max_position_usd = 50

\* C24: over any sequence of overlay runs, a rule's max_position_usd is at
\* most the value it had before the first run.
C24_CapNeverAboveInitial ==
  \A i \in DOMAIN file_at_start.rules, j \in DOMAIN constraints_file.rules :
     ( /\ RuleLimits(file_at_start.rules[i]).venue = RuleLimits(constraints_file.rules[j]).venue
       /\ RuleLimits(file_at_start.rules[i]).asset = RuleLimits(constraints_file.rules[j]).asset
       /\ "max_position_usd" \in DOMAIN file_at_start.rules[i] )
       => Get(constraints_file.rules[j], "max_position_usd", 0)
            <= file_at_start.rules[i].max_position_usd

\* ---------------------------------------------------- the template refresh
\* The constraint verdicts of a candidate under a book.
Verdict(item, book) ==
  score_item_constraints(
    item, hold_hours(book, item.strategy_type),
    leverage_notional(item.size_usd, leverage_notional_multiplier(book, item.strategy_type)),
    asset_from_symbol(item.symbol), book)

\* The candidates whose two (venue, asset) keys had a rule before the refresh.
RuledBefore(item) ==
  \A venue \in { item.buy_venue, item.sell_venue } :
     << ConstraintBook_canonical_venue(venue, ConstraintBookOf(file_before).known_venues),
        asset_from_symbol(item.symbol) >> \in DOMAIN ConstraintBookOf(file_before).rules

\* C30: a refresh of the template over an existing constraints file keeps
\* what the scorer reads from it: every existing rule, every default
\* (max_leverage too), the hold hours and the leverage multipliers; a
\* candidate whose rules existed gets the same constraint verdicts.
C30_RefreshKeepsScorerSettings ==
  (cfile_op = "template" /\ file_before # EmptyConstraintsFile)
    => LET old == ConstraintBookOf(file_before)
           new == ConstraintBookOf(constraints_file)
       IN  /\ \A key \in DOMAIN old.rules :
                key \in DOMAIN new.rules /\ new.rules[key] = old.rules[key]
           /\ \A k \in DOMAIN old.defaults :
                k \in DOMAIN new.defaults /\ new.defaults[k] = old.defaults[k]
           /\ new.strategy_hold_hours = old.strategy_hold_hours
           /\ new.strategy_leverage_notional_multiplier
                = old.strategy_leverage_notional_multiplier
           /\ \A i \in DOMAIN template_input :
                RuledBefore(template_input[i])
                  => Verdict(template_input[i], new) = Verdict(template_input[i], old)

\* ------------------------------------------------------------ the pipeline
FailSoftSteps == { PIPELINE[i].name : i \in { j \in DOMAIN PIPELINE : PIPELINE[j].allow_fail } }
ProducedThisRun ==
  /\ combined_file =
       Some(sample_fallback(merge_candidate_files(candidate_files, CandidateBuilders)))
  /\ shortlist_written = "this_run"
  /\ site_built = "this_run"

\* C21: a builder or an authenticated overlay that fails never stops the
\* run. A run stops early only at a step that is not one of them, and then
\* after all five builders have run; a run that finishes has merged, scored
\* and built the site in this run; and every started run finishes or stops
\* at such a step.
C21_FailSoftStepsNeverStopTheRun ==
  /\ [](pipe_state = "aborted"
          => /\ PIPELINE[pipe_pos].name \notin FailSoftSteps
             /\ pipe_pos > 5
             /\ failed_steps \ FailSoftSteps = { PIPELINE[pipe_pos].name })
  /\ [](pipe_state = "done" => ProducedThisRun)
  /\ (pipe_state = "running")
       ~> (\/ pipe_state = "done" /\ ProducedThisRun
           \/ pipe_state = "aborted" /\ failed_steps \ FailSoftSteps # { })

\* A run in which a candidate builder, the friction snapshot and an overlay
\* failed has finished with a shortlist and a site of its own, the
\* candidates of the funding builder among those scored.
C21_Witness ==
  /\ pipe_state = "done"
  /\ { "cex", "friction", "overlay" } \subseteq failed_steps
  /\ "funding" \notin failed_steps
  /\ ProducedThisRun
  /\ \E i \in DOMAIN combined_file[1] :
       /\ combined_file[1][i].strategy_type = StrategyOf["funding"]
       /\ combined_file[1][i].origin = "this_run"

\* C22: the merged candidates scored in a run hold no candidate of the
\* strategy of a builder that failed in this run (the sample file's aside).
C22_FailedBuilderContributesNothing ==
  (pipe_state \in { "running", "done", "aborted" } /\ shortlist_written = "this_run")
    => \A b \in Range(CandidateBuilders) \cap failed_steps :
         \A i \in DOMAIN combined_file[1] :
            ~( /\ combined_file[1][i].strategy_type = StrategyOf[b]
               /\ combined_file[1][i].origin # "sample" )
====
